---- MODULE Spec2Model ----
(***************************************************************************)
(* TomoPrep (TomoPrep_v1.4.py, functions.py): the orchestration core.      *)
(* One sequencer process per discovered mdoc file (process_mdoc_file), the *)
(* main process that fans them out, joins them and then runs the           *)
(* cross-unit stages (relion_setup, relion_import_star_maker,              *)
(* relion_import, relion_tomo_reconstruct), the SLURM queue the processes  *)
(* query and submit to, and the files through which jobs and stages        *)
(* signal each other.                                                      *)
(***************************************************************************)
EXTENDS Integers, Sequences, FiniteSets, TLC

\* ------------------------------------------------------------------ bounds
\* Number of files in mdoc_directory.
NumUnits == 2
\* Largest value of config['max_jobs'] a run is started with.
MaxCeiling == 3
\* Largest number of tilt segments of an mdoc text.
MaxSegments == 3
\* Largest number of pieces of an ImageFile identifier.
MaxPieces == 3
\* Largest number of times config_TomoPrep.json is rewritten during a run.
MaxEdits == 1
\* Largest number of passes of the import star-file assembly over the files.
MaxPasses == 2

Units == 1..NumUnits
\* The main process (the __main__ block); the sequencer processes are the Units.
Main == 0
Procs == {Main} \cup Units

\* The jobs a unit gets submitted for it.
JobStages == {"motioncorr", "aretomo", "ctffind", "reconstruct"}

\* The files AreTomo leaves in <prefix>_Imod, as relion_setup enumerates them.
ImodFiles == <<"tilt.com", "newst.com", "tlt", "st", "xf", "xtilt">>
\* imod[u] = 0: no <prefix>_Imod directory; n >= 1: the directory and the
\* first n-1 files of ImodFiles.
ImodComplete == Len(ImodFiles) + 1
ImodListing(n) == {ImodFiles[i] : i \in 1..(IF n = 0 THEN 0 ELSE n - 1)}

\* ------------------------------------------------------------ the mdoc text
\* A text is a sequence of lines <<key, number, name>>: "ImageFile = <name>",
\* "[ZValue = <number>]", "TiltAngle = <number>", "SubFramePath = <number>"
\* (the number identifies the movie), "NumSubFrames = <number>". A name is a
\* sequence of pieces; the extensions ".mrc", ".eer" are pieces of their own.
ImageFileLine(name) == <<"ImageFile", 0, name>>
ZValueLine(z) == <<"ZValue", z, <<>>>>
TiltAngleLine(a) == <<"TiltAngle", a, <<>>>>
SubFramePathLine(m) == <<"SubFramePath", m, <<>>>>
NumSubFramesLine(n) == <<"NumSubFrames", n, <<>>>>

\* Variant of Replace: the result of str.replace is dropped, the name stays.
ReplaceDropped(name, old) == name

\* str.replace(old, ""): every occurrence of the piece is removed.
Replace(name, old) == SelectSeq(name, LAMBDA piece : piece # old)

\* A line matches the pattern of a key; "NumSubFrames = (\d+)" matches no
\* negative number.
Matches(line, key) == line[1] = key /\ (key = "NumSubFrames" => line[2] >= 0)

\* re.search(key, text): the index of the first matching line, 0 for no match.
Search(text, key) ==
    IF \E i \in DOMAIN text : Matches(text[i], key)
      THEN CHOOSE i \in DOMAIN text :
             Matches(text[i], key) /\ \A j \in 1..(i - 1) : ~Matches(text[j], key)
      ELSE 0

\* Variant of ZGroups: the loop over the groups starts at the second marker.
ZGroupsFromSecond(text) ==
    LET marks == SelectSeq([i \in 1..Len(text) |-> i],
                           LAMBDA i : Matches(text[i], "ZValue"))
    IN  [g \in 1..(IF marks = <<>> THEN 0 ELSE Len(marks) - 1) |->
            SubSeq(text, marks[g + 1] + 1,
                   IF g + 1 = Len(marks) THEN Len(text) ELSE marks[g + 2] - 1)]

\* re.split(r"\[ZValue = (-?\d+)]", ..)[1:], every second element: the text
\* after each ZValue marker up to the next marker.
ZGroups(text) ==
    LET marks == SelectSeq([i \in 1..Len(text) |-> i],
                           LAMBDA i : Matches(text[i], "ZValue"))
    IN  [g \in 1..Len(marks) |->
            SubSeq(text, marks[g] + 1,
                   IF g = Len(marks) THEN Len(text) ELSE marks[g + 1] - 1)]

\* A Z group in which one of the three searches returns None: .group raises.
GroupRaises(z_data) ==
    \/ Search(z_data, "TiltAngle") = 0
    \/ Search(z_data, "SubFramePath") = 0
    \/ Search(z_data, "NumSubFrames") = 0

\* The tuple appended for a Z group.
GroupRow(z_data) ==
    [TiltAngle |-> z_data[Search(z_data, "TiltAngle")][2],
     SubFramePath |-> z_data[Search(z_data, "SubFramePath")][2],
     NumSubFrames |-> z_data[Search(z_data, "NumSubFrames")][2]]

\* Variant of readmdoc: a Z group that lacks a field is passed over and the
\* frame holds the rows of the other groups.
readmdocSkipsIncomplete(text) ==
    LET groups == SelectSeq(ZGroups(text), LAMBDA z_data : ~GroupRaises(z_data))
        at == Search(text, "ImageFile")
    IN  [raised |-> FALSE,
         rows |-> [g \in DOMAIN groups |-> GroupRow(groups[g])],
         has_image |-> at # 0,
         ImageFile |-> IF at = 0 THEN <<>> ELSE Replace(text[at][3], ".mrc")]

\* readmdoc: the data frame (rows in file order, the ImageFile column with
\* ".mrc" removed, None when there is no ImageFile line), or the exception of
\* the first Z group that lacks a field.
readmdoc(text) ==
    LET groups == ZGroups(text)
        at == Search(text, "ImageFile")
    IN  IF \E g \in DOMAIN groups : GroupRaises(groups[g])
          THEN [raised |-> TRUE, rows |-> <<>>, has_image |-> FALSE, ImageFile |-> <<>>]
          ELSE [raised |-> FALSE,
                rows |-> [g \in DOMAIN groups |-> GroupRow(groups[g])],
                has_image |-> at # 0,
                ImageFile |-> IF at = 0 THEN <<>> ELSE Replace(text[at][3], ".mrc")]

\* ".{}".format(file_type)
Dot(file_type) == CASE file_type = "mrc" -> ".mrc"
                    [] file_type = "eer" -> ".eer"

\* Variant of get_position_name: the name taken through str(), so that an
\* absent ImageFile gives the position "None".
get_position_nameOfNone(text, file_type) ==
    LET mdoc_df == readmdoc(text)
    IN  IF mdoc_df.raised \/ Len(mdoc_df.rows) < 2
          THEN [raised |-> TRUE, position_prefix |-> <<>>,
                position_directory |-> <<>>]
          ELSE LET position_prefix ==
                       IF mdoc_df.has_image
                         THEN Replace(mdoc_df.ImageFile, Dot(file_type))
                         ELSE <<"None">>
               IN  [raised |-> FALSE, position_prefix |-> position_prefix,
                    position_directory |-> <<"processing_directory">> \o position_prefix]

\* get_position_name: mdoc_df.loc[1, "ImageFile"] raises KeyError without a
\* row labelled 1, None.replace raises AttributeError; position_directory is
\* os.path.join(processing_directory, position_prefix).
get_position_name(text, file_type) ==
    LET mdoc_df == readmdoc(text)
    IN  IF mdoc_df.raised \/ Len(mdoc_df.rows) < 2 \/ ~mdoc_df.has_image
          THEN [raised |-> TRUE, position_prefix |-> <<>>,
                position_directory |-> <<>>]
          ELSE LET position_prefix == Replace(mdoc_df.ImageFile, Dot(file_type))
               IN  [raised |-> FALSE, position_prefix |-> position_prefix,
                    position_directory |-> <<"processing_directory">> \o position_prefix]

\* DataFrame.sort_values(by='TiltAngle'): rows in ascending tilt angle, rows
\* of equal angle in file order.
RECURSIVE sort_values(_)
sort_values(rows) ==
    IF rows = <<>> THEN <<>>
    ELSE LET k == CHOOSE i \in DOMAIN rows :
                      /\ \A j \in DOMAIN rows : rows[i].TiltAngle <= rows[j].TiltAngle
                      /\ \A j \in 1..(i - 1) : rows[j].TiltAngle # rows[i].TiltAngle
         IN  <<rows[k]>> \o
             sort_values(SubSeq(rows, 1, k - 1) \o SubSeq(rows, k + 1, Len(rows)))

\* A file that does not exist, and a file with its lines.
NoFile == [exists |-> FALSE, lines |-> <<>>]
File(lines) == [exists |-> TRUE, lines |-> lines]

\* Variant of WriteFile: the file opened with 'a', the lines are appended.
WriteFileAppends(old, lines) == File(old.lines \o lines)

\* open(path, 'w') and write: the file holds what was written, whatever it held.
WriteFile(old, lines) == File(lines)

\* What rawtlt_maker writes: tilt_angles.to_string(index=False), one per line.
RawtltLines(text) ==
    LET sorted_df == sort_values(readmdoc(text).rows)
    IN  [i \in DOMAIN sorted_df |-> sorted_df[i].TiltAngle]

\* What newstacker writes: the number of rows, then per row of the sorted
\* frame the line "MotionCorr/job002/<modified path>" and the line "0".
RECURSIVE ManifestPairs(_)
ManifestPairs(rows) ==
    IF rows = <<>> THEN <<>>
    ELSE <<<<"MotionCorr/job002/", rows[1].SubFramePath>>, <<"0", 0>>>>
         \o ManifestPairs(Tail(rows))

\* Variant of NewstackLines: the loop runs over mdoc_df, not over sorted_df.
NewstackLinesUnsorted(text) ==
    LET mdoc_df == readmdoc(text).rows
    IN  <<<<"len", Len(mdoc_df)>>>> \o ManifestPairs(mdoc_df)

NewstackLines(text) ==
    LET sorted_df == sort_values(readmdoc(text).rows)
    IN  <<<<"len", Len(sorted_df)>>>> \o ManifestPairs(sorted_df)

\* Variant of OrderListLines: the angles taken from the sorted frame.
OrderListLinesSorted(text) ==
    LET sorted_df == sort_values(readmdoc(text).rows)
    IN  [i \in DOMAIN sorted_df |-> <<i, sorted_df[i].TiltAngle>>]

\* What tomo_order_list_maker writes: per row of the frame as parsed, the
\* line "<Index>,<TiltAngle>" with Index = range(1, len(tilt_angles) + 1).
OrderListLines(text) ==
    LET mdoc_df == readmdoc(text).rows
    IN  [i \in DOMAIN mdoc_df |-> <<i, mdoc_df[i].TiltAngle>>]

\* The movies file_sorter links for a text: row["SubFramePath"] of every row.
Movies(text) ==
    LET rows == readmdoc(text).rows IN {rows[i].SubFramePath : i \in DOMAIN rows}

\* Variant of FirstExisting: the link replaced as by "ln -sf", no row raises.
FirstExistingReplaced(text, linked) == 0

\* The first row whose os.symlink raises FileExistsError: its link is in the
\* directory already, or an earlier row of the loop made it (0: no such row).
FirstExisting(text, linked) ==
    LET rows == readmdoc(text).rows
        Exists(i) == \/ rows[i].SubFramePath \in linked
                     \/ \E j \in 1..(i - 1) : rows[j].SubFramePath = rows[i].SubFramePath
    IN  IF \E i \in DOMAIN rows : Exists(i)
          THEN CHOOSE i \in DOMAIN rows : Exists(i) /\ \A j \in 1..(i - 1) : ~Exists(j)
          ELSE 0

\* The links in the directory after the loop of file_sorter: those of the
\* rows before the one that raised, or of all rows.
LinkedAfter(text, linked) ==
    LET rows == readmdoc(text).rows
        k == FirstExisting(text, linked)
    IN  linked \cup {rows[i].SubFramePath :
                        i \in 1..(IF k = 0 THEN Len(rows) ELSE k - 1)}

\* Variant of IsMdocFile: the filter without its "_override" test.
IsMdocFileWithOverride(filename) ==
    Len(filename) > 0 /\ filename[Len(filename)] = ".mdoc"

\* A file name of mdoc_directory is a sequence of pieces as well; the filter of
\* the main block: filename.endswith(".mdoc") and "_override" not in filename.
IsMdocFile(filename) ==
    /\ Len(filename) > 0 /\ filename[Len(filename)] = ".mdoc"
    /\ \A i \in DOMAIN filename : filename[i] # "_override"

VARIABLES
    config,           \* config_TomoPrep.json: the enable flags, max_jobs, file_type
    edits,            \* number of times config_TomoPrep.json was rewritten since the start
    loaded,           \* [Procs -> the values the process holds from its reads of the file]
    filenames,        \* [Units -> the name of the file in mdoc_directory]
    mdoc,             \* [Units -> the text of the file]
    position,         \* [Units -> what get_position_name returns for the file]
    pc,               \* [Procs -> position in the code]
    mk,               \* main: index of the unit its current loop is at
    message_printed,  \* [Procs -> the local message_printed of the current loop]
    job_count,        \* [Procs -> the local job_count (0: no query yet)]
    subs,             \* [Units -> the stages sbatch was run for, in order]
    importSubs,       \* number of sbatch runs of relion_import.sh
    jobs,             \* [Units -> [JobStages -> "none" | "queued" | "running" | "done"]]
    importJob,        \* "none" | "queued" | "done"
    dir,              \* [Units -> position_directory exists]
    links,            \* [Units -> the movies linked in position_directory]
    rawtlt,           \* [Units -> the file <prefix>.rawtlt]
    newstack,         \* [Units -> the file <prefix>_newstack.txt]
    orderList,        \* [Units -> the file <prefix>_order_list.csv]
    mcMarker,         \* [Units -> MotionCorr/job002/RELION_JOB_EXIT_SUCCESS exists]
    stack,            \* [Units -> <prefix>_unaligned.mrc exists]
    ctfList,          \* [Units -> CTF/<prefix>.txt exists]
    imod,             \* [Units -> 0..ImodComplete, see ImodListing]
    rlinks,           \* [Units -> names linked under RELION_PROCESSING/tomograms/<prefix>]
    star,             \* tomograms_descr.star: <<>> (no file) or its entries in order
    importMarker,     \* ImportTomo/job001/RELION_JOB_EXIT_SUCCESS exists
    scripts,          \* [Units -> stages whose job script was written in this run]
    assembled,        \* units relion_setup and relion_import_star_maker finished for in this run
    closing           \* the closing notice was printed

vars == <<config, edits, loaded, filenames, mdoc, position, pc, mk, message_printed, job_count, subs,
          importSubs, jobs, importJob, dir, links, rawtlt, newstack, orderList,
          mcMarker, stack, ctfList, imod, rlinks, star, importMarker, scripts,
          assembled, closing>>

\* What a run reads and never writes.
inputs == <<config, edits, filenames, mdoc, position>>

procVars == <<pc, mk, message_printed, job_count, loaded>>
queueVars == <<subs, importSubs, jobs, importJob>>
unitFiles == <<dir, links, rawtlt, newstack, orderList, scripts>>
jobFiles == <<mcMarker, stack, ctfList, imod, importMarker>>
relionFiles == <<rlinks, star, assembled>>

Flags == [file_sorting : BOOLEAN, motion_correction : BOOLEAN,
          aretomo_alignment : BOOLEAN, ctf_estimation : BOOLEAN,
          relion_tomo_import : BOOLEAN, relion_tomogram_reconstruction : BOOLEAN,
          max_jobs : 1..MaxCeiling, file_type : {"mrc", "eer"}]

\* ------------------------------------------------------- the texts of the model
\* The identifier pieces of the acquisitions.
Positions == <<"Position_1", "Position_2", "Position_3">>

\* What a tilt segment of a text may lack or get wrong.
Defects == {"none", "no TiltAngle", "no SubFramePath", "no NumSubFrames",
            "negative NumSubFrames", "repeated SubFramePath"}

\* The g-th tilt segment as the acquisition software writes it (movie g, 8
\* frames), with a defect.
Segment(g, angle, defect) ==
    <<ZValueLine(g - 1)>>
      \o (IF defect = "no TiltAngle" THEN <<>> ELSE <<TiltAngleLine(angle)>>)
      \o (IF defect = "no SubFramePath" THEN <<>>
          ELSE <<SubFramePathLine(IF defect = "repeated SubFramePath" THEN 1 ELSE g)>>)
      \o (IF defect = "no NumSubFrames" THEN <<>>
          ELSE <<NumSubFramesLine(IF defect = "negative NumSubFrames" THEN 0 - 8 ELSE 8)>>)

RECURSIVE Segments(_, _, _, _)
Segments(g, angles, bad, defect) ==
    IF g > Len(angles) THEN <<>>
    ELSE Segment(g, angles[g], IF g = bad THEN defect ELSE "none")
         \o Segments(g + 1, angles, bad, defect)

\* An mdoc text: the header (without an ImageFile line for the empty name) and
\* one segment per angle, the segment at index bad with the defect.
Text(name, angles, bad, defect) ==
    (IF name = <<>> THEN <<>> ELSE <<ImageFileLine(name)>>)
      \o Segments(1, angles, bad, defect)

\* The mdoc of a tilt series acquired at +20, -20, 0 degrees.
SeriesText(name) == Text(name, <<20, 0 - 20, 0>>, 0, "none")

NamePieces == {"Position_1", ".mrc", ".eer"}
\* The identifiers of up to MaxPieces pieces.
Names == UNION {[1..n -> NamePieces] : n \in 1..MaxPieces}

\* The texts for the sorting block: every series of up to MaxSegments
\* segments with at most one defective segment, and the series of every
\* identifier or of none.
SortingTexts ==
    {Text(<<"Position_1", ".mrc">>, angles, bad, defect) :
        angles \in UNION {[1..n -> {0 - 20, 0, 20}] : n \in 0..MaxSegments},
        bad \in 0..MaxSegments, defect \in Defects}
      \cup {SeriesText(name) : name \in Names \cup {<<>>}}

\* The file of position k as acquired, and its name in mdoc_directory.
OwnText(k) == SeriesText(<<Positions[k], ".mrc">>)
OwnName(k) == <<Positions[k], ".mdoc">>

\* What file k of a directory may be instead: a series carrying the
\* identifier of its neighbour without the extension, a series with a segment
\* that lacks its tilt angle, frame count or path, a series of one segment, a
\* series without ImageFile.
Neighbour(k) == (k % NumUnits) + 1
OtherTexts(k) ==
    {OwnText(k),
     SeriesText(<<Positions[Neighbour(k)]>>),
     Text(<<Positions[k], ".mrc">>, <<20, 0 - 20, 0>>, 1, "no TiltAngle"),
     Text(<<Positions[k], ".mrc">>, <<20, 0 - 20, 0>>, 2, "no NumSubFrames"),
     Text(<<Positions[k], ".mrc">>, <<20, 0 - 20, 0>>, 3, "no SubFramePath"),
     Text(<<Positions[k], ".mrc">>, <<20>>, 0, "none"),
     Text(<<>>, <<20, 0 - 20, 0>>, 0, "none")}
OtherNames(k) ==
    {OwnName(k),
     <<Positions[k], "_override", ".mdoc">>,
     <<"_override", Positions[k], ".mdoc">>,
     <<Positions[k], ".mdoc", ".txt">>}

\* The position a file resolves to, as every stage function computes it at
\* its start.
PositionName(u) == position[u]
Resolves(u) == ~PositionName(u).raised

\* Files are kept per position directory: the directory of unit u is held
\* at the first file of mdoc_directory that resolves to the same path.
D(u) == CHOOSE v \in Units :
            /\ PositionName(v) = PositionName(u)
            /\ \A w \in 1..(v - 1) : PositionName(w) # PositionName(u)

\* mdoc_files: the files the main block keeps, in listing order.
mdoc_files == SelectSeq([i \in 1..NumUnits |-> i], LAMBDA i : IsMdocFile(filenames[i]))
\* The mdoc file the current loop of the main block is at.
Cur == mdoc_files[mk]
LastFile == mk = Len(mdoc_files)

\* The entries of tomograms_descr.star: the header block, and the line of a unit.
StarHeader == <<"header", Main>>
StarLine(u) == <<"line", u>>

\* Everything relion_setup links for a unit.
AllRelionLinks == {"stack", "ctf", "order"} \cup ImodListing(ImodComplete)

\* ------------------------------------------------------------------- Init
\* A unit is either fresh or was taken through all per-unit stages by an
\* earlier run (prior); an earlier run may also have imported some of those
\* units (the mdoc directory may have grown since).
InitFiles(prior, imported) ==
    /\ dir = prior
    /\ links = [u \in Units |-> IF prior[u] THEN Movies(mdoc[u]) ELSE {}]
    /\ rawtlt = [u \in Units |-> IF prior[u] THEN File(RawtltLines(mdoc[u])) ELSE NoFile]
    /\ newstack = [u \in Units |-> IF prior[u] THEN File(NewstackLines(mdoc[u])) ELSE NoFile]
    /\ orderList = [u \in Units |-> IF prior[u] THEN File(OrderListLines(mdoc[u])) ELSE NoFile]
    /\ mcMarker = prior
    /\ stack = prior
    /\ ctfList = prior
    /\ imod = [u \in Units |-> IF prior[u] THEN ImodComplete ELSE 0]
    /\ rlinks = [u \in Units |-> IF u \in imported THEN AllRelionLinks ELSE {}]
    /\ star = IF imported = {}
                THEN <<>>
                ELSE <<StarHeader>> \o
                     SelectSeq([i \in 1..NumUnits |-> StarLine(i)],
                               LAMBDA l : l[2] \in imported)
    /\ importMarker = (imported # {})

\* The state of the processes and of the queue when the main block starts.
InitRun ==
    /\ position = [u \in Units |-> get_position_name(mdoc[u], config.file_type)]
    /\ edits = 0
    /\ loaded = [p \in Procs |-> config]
    /\ pc = [p \in Procs |-> IF p = Main THEN "spawn" ELSE "idle"]
    /\ mk = 1
    /\ message_printed = [p \in Procs |-> FALSE]
    /\ job_count = [p \in Procs |-> 0]
    /\ subs = [u \in Units |-> <<>>]
    /\ importSubs = 0
    /\ jobs = [u \in Units |-> [s \in JobStages |-> "none"]]
    /\ importJob = "none"
    /\ scripts = [u \in Units |-> {}]
    /\ assembled = {}
    /\ closing = FALSE

\* Every flag combination and ceiling, over a directory of well-formed mdoc
\* files of distinct positions.
Init ==
    /\ config \in {c \in Flags : c.file_type = "mrc"}
    /\ filenames = [u \in Units |-> OwnName(u)]
    /\ mdoc = [u \in Units |-> OwnText(u)]
    /\ InitRun
    /\ \E prior \in [Units -> BOOLEAN] :
          \E imported \in SUBSET {u \in Units : prior[u]} :
              InitFiles(prior, imported)

\* ------------------------------------------------------- shared building blocks
UnitStages == {"motioncorr", "aretomo", "ctffind"}
Terminated == {"done", "failed"}

\* Where an exception raised in process p ends: process_mdoc_file catches it
\* and returns (the unit's process ends); the main block catches nothing.
Abort(p) == IF p = Main THEN "crashed" ELSE "failed"

Goto(p, nxt) == pc' = [pc EXCEPT ![p] = nxt]

Locals(p, mp, jc) ==
    /\ message_printed' = [message_printed EXCEPT ![p] = mp]
    /\ job_count' = [job_count EXCEPT ![p] = jc]

\* squeue -u $(whoami) | wc -l: the header line and one line per job in the queue.
QueueLines ==
    1 + Cardinality({x \in Units \X JobStages : jobs[x[1]][x[2]] \in {"queued", "running"}})
      + (IF importJob = "queued" THEN 1 ELSE 0)

\* Variant of Admits: the comparison written "job_count > max_jobs".
AdmitsAtCeiling(jc, mj) == ~(jc > mj)

\* The admission test: the else branch of "if job_count >= max_jobs".
Admits(jc, mj) == ~(jc >= mj)

\* Variant of Query: the notice printed without "message_printed = True".
QueryNoticeEachPass(p, here, sub) ==
    /\ pc[p] = here
    /\ IF Admits(QueueLines, loaded[p].max_jobs)
         THEN /\ Goto(p, sub)
              /\ Locals(p, message_printed[p], QueueLines)
         ELSE /\ Locals(p, FALSE, QueueLines)
              /\ UNCHANGED pc

\* One pass of an admission loop up to the submit: query, then wait or go on.
Query(p, here, sub) ==
    /\ pc[p] = here
    /\ IF Admits(QueueLines, loaded[p].max_jobs)
         THEN /\ Goto(p, sub)
              /\ Locals(p, message_printed[p], QueueLines)
         ELSE /\ Locals(p, TRUE, QueueLines)
              /\ UNCHANGED pc

\* Variant of Sbatch: the sbatch line run twice.
SbatchTwice(u, s) ==
    /\ jobs' = [jobs EXCEPT ![u][s] = "queued"]
    /\ subs' = [subs EXCEPT ![u] = Append(Append(@, s), s)]

\* subprocess.run(['sbatch', slurm_script_path]): fire and forget.
Sbatch(u, s) ==
    /\ jobs' = [jobs EXCEPT ![u][s] = "queued"]
    /\ subs' = [subs EXCEPT ![u] = Append(@, s)]

\* Variant of Submit: query and submit under one lock, the load is looked at
\* again at the submit.
SubmitLocked(p, here, u, s, nxt) ==
    /\ pc[p] = here
    /\ QueueLines < loaded[p].max_jobs
    /\ jobs' = [jobs EXCEPT ![u][s] = "queued"]
    /\ subs' = [subs EXCEPT ![u] = Append(@, s)]
    /\ Goto(p, nxt)
    /\ Locals(p, FALSE, 0)

\* The else branch of an admission loop: submit, then break and return.
Submit(p, here, u, s, nxt) ==
    /\ pc[p] = here
    /\ Sbatch(u, s)
    /\ Goto(p, nxt)
    /\ Locals(p, FALSE, 0)

\* Variant of GateOpen: the loop condition without its "not".
GateInverted(exists) == ~exists

\* A single-path gate lets through when its loop condition
\* "not os.path.exists(path)" is false.
GateOpen(exists) == exists

\* Variant of Gate: the wait gives up at the check after the notice.
GateTimesOut(p, here, exists, nxt) ==
    /\ pc[p] = here
    /\ IF GateOpen(exists) \/ message_printed[p]
         THEN /\ Goto(p, nxt)
              /\ Locals(p, FALSE, 0)
         ELSE /\ Locals(p, TRUE, 0)
              /\ UNCHANGED pc

\* One check of a single-path gate: go on, or print the notice once and re-check.
Gate(p, here, exists, nxt) ==
    /\ pc[p] = here
    /\ IF GateOpen(exists)
         THEN /\ Goto(p, nxt)
              /\ Locals(p, FALSE, 0)
         ELSE /\ Locals(p, TRUE, 0)
              /\ UNCHANGED pc

\* A stage reads the mdoc for the position name (raising when that fails),
\* reads config_TomoPrep.json for its parameters, max_jobs among them, and
\* writes its job script into position_directory; open(.., "w") raises when
\* the directory does not exist.
WriteScript(p, here, u, s, nxt) ==
    /\ pc[p] = here
    /\ IF Resolves(u) /\ dir[D(u)]
         THEN /\ scripts' = [scripts EXCEPT ![D(u)] = @ \cup {s}]
              /\ Goto(p, nxt)
         ELSE /\ Goto(p, Abort(p))
              /\ UNCHANGED scripts
    /\ loaded' = IF Resolves(u)
                   THEN [loaded EXCEPT ![p].max_jobs = config.max_jobs]
                   ELSE loaded
    /\ Locals(p, FALSE, 0)

\* ------------------------------------------------ process_mdoc_file (one per unit)
\* The ifs of process_mdoc_file test the flags the process read at its start.
AfterAretomo(u) == IF loaded[u].ctf_estimation THEN "ctf_prep" ELSE "done"
\* Variant of AfterMotioncorr: ctffind called before aretomo.
AfterMotioncorrCtfFirst(u) ==
    IF loaded[u].ctf_estimation THEN "ctf_prep"
    ELSE IF loaded[u].aretomo_alignment THEN "at_prep" ELSE "done"

\* Variant of AfterMotioncorr: the ctffind block indented under the aretomo block.
AfterMotioncorrNested(u) == IF loaded[u].aretomo_alignment THEN "at_prep" ELSE "done"

AfterMotioncorr(u) == IF loaded[u].aretomo_alignment THEN "at_prep" ELSE AfterAretomo(u)
\* Variant of AfterSorting: the motioncorr call left out.
AfterSortingSkipsMotioncorr(u) ==
    IF loaded[u].aretomo_alignment THEN "at_prep" ELSE AfterAretomo(u)

AfterSorting(u) == IF loaded[u].motion_correction THEN "mc_prep" ELSE AfterMotioncorr(u)
AfterStart(u) == IF loaded[u].file_sorting THEN "file_sorter" ELSE AfterSorting(u)

\* The process reads config_TomoPrep.json and goes to its first enabled stage.
process_mdoc_file(u) ==
    /\ pc[u] = "start"
    /\ loaded' = [loaded EXCEPT ![u] = config]
    /\ Goto(u, AfterStart(u)')
    /\ UNCHANGED <<mk, message_printed, job_count, inputs, closing>>
    /\ UNCHANGED <<queueVars, unitFiles, jobFiles, relionFiles>>

\* Variant of file_sorter: the failed link is reported and the sequence goes on.
file_sorter_continues(u) ==
    /\ pc[u] = "file_sorter"
    /\ dir' = [dir EXCEPT ![D(u)] = TRUE]
    /\ links' = [links EXCEPT ![D(u)] = @ \cup Movies(mdoc[u])]
    /\ Goto(u, "rawtlt_maker")
    /\ UNCHANGED <<mk, message_printed, job_count, inputs, loaded, closing>>
    /\ UNCHANGED <<rawtlt, newstack, orderList, scripts>>
    /\ UNCHANGED <<queueVars, jobFiles, relionFiles>>

\* get_position_name and readmdoc (raising before anything is made), then
\* makedirs(exist_ok), then os.symlink per row: FileExistsError on a link
\* that is already there.
file_sorter(u) ==
    /\ pc[u] = "file_sorter"
    /\ IF ~Resolves(u)
         THEN Goto(u, Abort(u)) /\ UNCHANGED <<dir, links>>
         ELSE /\ dir' = [dir EXCEPT ![D(u)] = TRUE]
              /\ links' = [links EXCEPT ![D(u)] = LinkedAfter(mdoc[u], @)]
              /\ Goto(u, IF FirstExisting(mdoc[u], links[D(u)]) # 0
                           THEN Abort(u) ELSE "rawtlt_maker")
    /\ UNCHANGED <<mk, message_printed, job_count, inputs, loaded, closing>>
    /\ UNCHANGED <<rawtlt, newstack, orderList, scripts>>
    /\ UNCHANGED <<queueVars, jobFiles, relionFiles>>

\* A function of the sorting block can write into position_directory.
CanWrite(u) == Resolves(u) /\ dir[D(u)]

\* The sorted tilt angles, written to <prefix>.rawtlt.
rawtlt_maker(u) ==
    /\ pc[u] = "rawtlt_maker"
    /\ IF CanWrite(u)
         THEN /\ rawtlt' = [rawtlt EXCEPT ![D(u)] = WriteFile(@, RawtltLines(mdoc[u]))]
              /\ Goto(u, "newstacker")
         ELSE Goto(u, Abort(u)) /\ UNCHANGED rawtlt
    /\ UNCHANGED <<mk, message_printed, job_count, inputs, loaded, closing>>
    /\ UNCHANGED <<dir, links, newstack, orderList, scripts>>
    /\ UNCHANGED <<queueVars, jobFiles, relionFiles>>

\* The input of newstack, written to <prefix>_newstack.txt.
newstacker(u) ==
    /\ pc[u] = "newstacker"
    /\ IF CanWrite(u)
         THEN /\ newstack' = [newstack EXCEPT ![D(u)] = WriteFile(@, NewstackLines(mdoc[u]))]
              /\ Goto(u, "tomo_order_list_maker")
         ELSE Goto(u, Abort(u)) /\ UNCHANGED newstack
    /\ UNCHANGED <<mk, message_printed, job_count, inputs, loaded, closing>>
    /\ UNCHANGED <<dir, links, rawtlt, orderList, scripts>>
    /\ UNCHANGED <<queueVars, jobFiles, relionFiles>>

\* The order list, written to <prefix>_order_list.csv by to_csv.
tomo_order_list_maker(u) ==
    /\ pc[u] = "tomo_order_list_maker"
    /\ IF CanWrite(u)
         THEN /\ orderList' = [orderList EXCEPT ![D(u)] = WriteFile(@, OrderListLines(mdoc[u]))]
              /\ Goto(u, AfterSorting(u))
         ELSE Goto(u, Abort(u)) /\ UNCHANGED orderList
    /\ UNCHANGED <<mk, message_printed, job_count, inputs, loaded, closing>>
    /\ UNCHANGED <<dir, links, rawtlt, newstack, scripts>>
    /\ UNCHANGED <<queueVars, jobFiles, relionFiles>>

\* The part of motioncorr, aretomo and ctffind before their loops.
StagePrep(u) ==
    /\ \/ WriteScript(u, "mc_prep", u, "motioncorr", "mc_query")
       \/ WriteScript(u, "at_prep", u, "aretomo", "at_gate")
       \/ WriteScript(u, "ctf_prep", u, "ctffind", "ctf_gate")
    /\ UNCHANGED <<mk, inputs, closing, dir, links, rawtlt, newstack, orderList>>
    /\ UNCHANGED <<queueVars, jobFiles, relionFiles>>

\* aretomo and ctffind wait for the motion-correction success marker.
StageGate(u) ==
    /\ \/ Gate(u, "at_gate", mcMarker[D(u)], "at_query")
       \/ Gate(u, "ctf_gate", mcMarker[D(u)], "ctf_query")
    /\ UNCHANGED <<mk, inputs, loaded, closing>>
    /\ UNCHANGED <<queueVars, unitFiles, jobFiles, relionFiles>>

StageQuery(u) ==
    /\ \/ Query(u, "mc_query", "mc_submit")
       \/ Query(u, "at_query", "at_submit")
       \/ Query(u, "ctf_query", "ctf_submit")
    /\ UNCHANGED <<mk, inputs, loaded, closing>>
    /\ UNCHANGED <<queueVars, unitFiles, jobFiles, relionFiles>>

StageSubmit(u) ==
    /\ \/ Submit(u, "mc_submit", u, "motioncorr", AfterMotioncorr(u))
       \/ Submit(u, "at_submit", u, "aretomo", AfterAretomo(u))
       \/ Submit(u, "ctf_submit", u, "ctffind", "done")
    /\ UNCHANGED <<mk, inputs, loaded, closing, importSubs, importJob>>
    /\ UNCHANGED <<unitFiles, jobFiles, relionFiles>>

SubmitPcs == {"mc_submit", "at_submit", "ctf_submit", "rec_submit"}

\* Variant of SbatchFails: the OSError is caught in the loop, which goes
\* round again to the query.
SbatchFailsRetries(p) ==
    /\ pc[p] \in SubmitPcs
    /\ Goto(p, CASE pc[p] = "mc_submit" -> "mc_query"
                  [] pc[p] = "at_submit" -> "at_query"
                  [] pc[p] = "ctf_submit" -> "ctf_query"
                  [] pc[p] = "rec_submit" -> "rec_query")
    /\ UNCHANGED <<mk, message_printed, job_count, inputs, loaded, closing>>
    /\ UNCHANGED <<queueVars, unitFiles, jobFiles, relionFiles>>

\* subprocess.run cannot launch sbatch (OSError): nothing is submitted and the
\* exception leaves the stage.
SbatchFails(p) ==
    /\ pc[p] \in SubmitPcs
    /\ Goto(p, Abort(p))
    /\ Locals(p, FALSE, 0)
    /\ UNCHANGED <<mk, inputs, loaded, closing>>
    /\ UNCHANGED <<queueVars, unitFiles, jobFiles, relionFiles>>

\* Where a process goes after the sbatch of the loop it is in.
AfterSbatch(p) ==
    CASE pc[p] = "mc_submit" -> AfterMotioncorr(p)
      [] pc[p] = "at_submit" -> AfterAretomo(p)
      [] pc[p] = "ctf_submit" -> "done"
      [] pc[p] = "rec_submit" -> IF mk = Len(mdoc_files) THEN "closing" ELSE "rec_prep"

\* The stage of the loop a process is in.
StageAt(p) ==
    CASE pc[p] = "mc_submit" -> "motioncorr"
      [] pc[p] = "at_submit" -> "aretomo"
      [] pc[p] = "ctf_submit" -> "ctffind"
      [] pc[p] = "rec_submit" -> "reconstruct"

\* Variant of SbatchRejected: subprocess.run(.., check=True), the non-zero
\* exit status raises CalledProcessError.
SbatchRejectedChecked(p) ==
    /\ pc[p] \in SubmitPcs
    /\ LET u == IF p = Main THEN mdoc_files[mk] ELSE p
       IN  subs' = [subs EXCEPT ![u] = Append(@, StageAt(p))]
    /\ Goto(p, Abort(p))
    /\ Locals(p, FALSE, 0)
    /\ UNCHANGED <<mk, inputs, loaded, closing, jobs, importSubs, importJob>>
    /\ UNCHANGED <<unitFiles, jobFiles, relionFiles>>

\* subprocess.run(['sbatch', slurm_script_path]) where sbatch runs and exits
\* with a non-zero status: no job is queued, the CompletedProcess is dropped,
\* the notice is printed and the loop is left as after a submission.
SbatchRejected(p) ==
    /\ pc[p] \in SubmitPcs
    /\ LET u == IF p = Main THEN mdoc_files[mk] ELSE p
       IN  subs' = [subs EXCEPT ![u] = Append(@, StageAt(p))]
    /\ Goto(p, AfterSbatch(p))
    /\ mk' = IF p = Main THEN (IF mk = Len(mdoc_files) THEN 1 ELSE mk + 1) ELSE mk
    /\ Locals(p, FALSE, 0)
    /\ UNCHANGED <<inputs, loaded, closing, jobs, importSubs, importJob>>
    /\ UNCHANGED <<unitFiles, jobFiles, relionFiles>>

\* ----------------------------------------------------------- the main block
\* A loop over mdoc_files is left at once when no file was kept.
AfterImport ==
    IF loaded[Main].relion_tomogram_reconstruction /\ mdoc_files # <<>>
      THEN "rec_prep" ELSE "closing"
\* Variant of AfterJoin: the import block left out.
AfterJoinSkipsImport == AfterImport

AfterJoin ==
    IF loaded[Main].relion_tomo_import
      THEN (IF mdoc_files # <<>> THEN "rs_stack_gate" ELSE "import")
      ELSE AfterImport

\* p.start() for the next mdoc file; after the last one the join loop begins.
Spawn ==
    /\ pc[Main] = "spawn"
    /\ IF mdoc_files = <<>>
         THEN Goto(Main, AfterJoin) /\ UNCHANGED mk
         ELSE /\ pc' = [pc EXCEPT ![Cur] = "start",
                                  ![Main] = IF LastFile THEN "join" ELSE "spawn"]
              /\ mk' = IF LastFile THEN 1 ELSE mk + 1
    /\ UNCHANGED <<message_printed, job_count, inputs, loaded, closing>>
    /\ UNCHANGED <<queueVars, unitFiles, jobFiles, relionFiles>>

\* Variant of Joined: the join loop does not wait.
JoinedNoWait(p) == TRUE

\* p.join() returns once process p has ended.
Joined(p) == pc[p] \in Terminated

Join ==
    /\ pc[Main] = "join"
    /\ Joined(Cur)
    /\ Goto(Main, IF LastFile THEN AfterJoin ELSE "join")
    /\ mk' = IF LastFile THEN 1 ELSE mk + 1
    /\ UNCHANGED <<message_printed, job_count, inputs, loaded, closing>>
    /\ UNCHANGED <<queueVars, unitFiles, jobFiles, relionFiles>>

\* relion_setup: it reads the mdoc for the position name (raising when that
\* fails); then the waits for the unaligned stack, the CTF list and the order
\* list of the current file.
SetupGate ==
    /\ \/ /\ pc[Main] = "rs_stack_gate" /\ ~Resolves(Cur)
          /\ Goto(Main, Abort(Main))
          /\ Locals(Main, FALSE, 0)
       \/ /\ Resolves(Cur)
          /\ Gate(Main, "rs_stack_gate", stack[D(Cur)], "rs_stack_link")
       \/ Gate(Main, "rs_ctf_gate", ctfList[D(Cur)], "rs_ctf_link")
       \/ Gate(Main, "rs_order_gate", orderList[D(Cur)].exists, "rs_order_link")
    /\ UNCHANGED <<mk, inputs, loaded, closing>>
    /\ UNCHANGED <<queueVars, unitFiles, jobFiles, relionFiles>>

\* os.symlink(source_path, link_path): FileExistsError when the link is there.
Symlink(here, name, nxt) ==
    /\ pc[Main] = here
    /\ IF name \in rlinks[D(Cur)]
         THEN Goto(Main, Abort(Main)) /\ UNCHANGED rlinks
         ELSE Goto(Main, nxt) /\ rlinks' = [rlinks EXCEPT ![D(Cur)] = @ \cup {name}]

\* Variant of SetupLink: the FileExistsError is caught in the import loop,
\* which goes on with the next file.
SetupLinkIsolated ==
    /\ pc[Main] \in {"rs_stack_link", "rs_ctf_link", "rs_order_link"}
    /\ LET name == CASE pc[Main] = "rs_stack_link" -> "stack"
                     [] pc[Main] = "rs_ctf_link" -> "ctf"
                     [] pc[Main] = "rs_order_link" -> "order"
           nxt == CASE pc[Main] = "rs_stack_link" -> "rs_ctf_gate"
                    [] pc[Main] = "rs_ctf_link" -> "rs_imod_gate"
                    [] pc[Main] = "rs_order_link" -> "rs_tlt"
       IN  IF name \in rlinks[D(Cur)]
             THEN /\ Goto(Main, IF LastFile THEN "import" ELSE "rs_stack_gate")
                  /\ mk' = IF LastFile THEN 1 ELSE mk + 1
                  /\ UNCHANGED rlinks
             ELSE /\ Goto(Main, nxt)
                  /\ rlinks' = [rlinks EXCEPT ![D(Cur)] = @ \cup {name}]
                  /\ UNCHANGED mk
    /\ UNCHANGED <<message_printed, job_count, inputs, loaded, closing, star, assembled>>
    /\ UNCHANGED <<queueVars, unitFiles, jobFiles>>

SetupLink ==
    /\ \/ Symlink("rs_stack_link", "stack", "rs_ctf_gate")
       \/ Symlink("rs_ctf_link", "ctf", "rs_imod_gate")
       \/ Symlink("rs_order_link", "order", "rs_tlt")
    /\ UNCHANGED <<mk, message_printed, job_count, inputs, loaded, closing, star, assembled>>
    /\ UNCHANGED <<queueVars, unitFiles, jobFiles>>

\* The wait for the files of <prefix>_Imod lets through when its loop condition
\*   not exists(dir) and exists(tilt.com) and exists(.tlt) and exists(newst.com)
\*   and exists(.xtilt) and exists(.xf) and exists(.st)
\* is false.
ImodGateOpen(n) ==
    ~( ~(n >= 1) /\ \A i \in 1..Len(ImodFiles) : ImodFiles[i] \in ImodListing(n) )

SetupImodGate ==
    /\ pc[Main] = "rs_imod_gate"
    /\ IF ImodGateOpen(imod[D(Cur)])
         THEN Goto(Main, "rs_listdir") /\ Locals(Main, FALSE, 0)
         ELSE Locals(Main, TRUE, 0) /\ UNCHANGED pc
    /\ UNCHANGED <<mk, inputs, loaded, closing>>
    /\ UNCHANGED <<queueVars, unitFiles, jobFiles, relionFiles>>

\* for file in os.listdir(source_imod_directory): os.symlink(...)
SetupListdir ==
    /\ pc[Main] = "rs_listdir"
    /\ IF imod[D(Cur)] = 0 \/ ImodListing(imod[D(Cur)]) \cap rlinks[D(Cur)] # {}
         THEN Goto(Main, Abort(Main)) /\ UNCHANGED rlinks
         ELSE /\ Goto(Main, "rs_order_gate")
              /\ rlinks' = [rlinks EXCEPT ![D(Cur)] = @ \cup ImodListing(imod[D(Cur)])]
    /\ UNCHANGED <<mk, message_printed, job_count, inputs, loaded, closing, star, assembled>>
    /\ UNCHANGED <<queueVars, unitFiles, jobFiles>>

\* The end of relion_setup: rewrite the linked .tlt, then read tilt.com from
\* <prefix>_Imod and write the modified copy.
SetupTlt ==
    /\ pc[Main] = "rs_tlt"
    /\ IF "tlt" \in rlinks[D(Cur)] /\ "tilt.com" \in ImodListing(imod[D(Cur)])
         THEN Goto(Main, "star")
         ELSE Goto(Main, Abort(Main))
    /\ UNCHANGED <<mk, message_printed, job_count, inputs, loaded, closing>>
    /\ UNCHANGED <<queueVars, unitFiles, jobFiles, relionFiles>>

\* Variant of StarWrite: write_header called without the os.path.exists test.
StarWriteHeaderEach(st, u) == <<StarHeader, StarLine(u)>>

\* RelionStarFile.write_header (when the file does not exist) and write_line.
StarWrite(st, u) ==
    IF st = <<>> THEN <<StarHeader, StarLine(u)>> ELSE Append(st, StarLine(u))

relion_import_star_maker ==
    /\ pc[Main] = "star"
    /\ star' = StarWrite(star, D(Cur))
    /\ assembled' = assembled \cup {Cur}
    /\ Goto(Main, IF LastFile THEN "import" ELSE "rs_stack_gate")
    /\ mk' = IF LastFile THEN 1 ELSE mk + 1
    /\ UNCHANGED <<message_printed, job_count, inputs, loaded, closing, rlinks>>
    /\ UNCHANGED <<queueVars, unitFiles, jobFiles>>

\* relion_import: write relion_import.sh and run sbatch on it.
relion_import ==
    /\ pc[Main] = "import"
    /\ importSubs' = importSubs + 1
    /\ importJob' = "queued"
    /\ Goto(Main, AfterImport)
    /\ UNCHANGED <<mk, message_printed, job_count, inputs, loaded, closing, subs, jobs>>
    /\ UNCHANGED <<unitFiles, jobFiles, relionFiles>>

\* relion_import where sbatch exits with a non-zero status.
relion_importRejected ==
    /\ pc[Main] = "import"
    /\ importSubs' = importSubs + 1
    /\ Goto(Main, AfterImport)
    /\ UNCHANGED <<mk, message_printed, job_count, inputs, loaded, closing, subs, jobs, importJob>>
    /\ UNCHANGED <<unitFiles, jobFiles, relionFiles>>

\* relion_tomo_reconstruct for the current file.
ReconstructPrep ==
    /\ WriteScript(Main, "rec_prep", Cur, "reconstruct", "rec_gate")
    /\ UNCHANGED <<mk, inputs, closing, dir, links, rawtlt, newstack, orderList>>
    /\ UNCHANGED <<queueVars, jobFiles, relionFiles>>

ReconstructGate ==
    /\ Gate(Main, "rec_gate", importMarker, "rec_query")
    /\ UNCHANGED <<mk, inputs, loaded, closing>>
    /\ UNCHANGED <<queueVars, unitFiles, jobFiles, relionFiles>>

ReconstructQuery ==
    /\ Query(Main, "rec_query", "rec_submit")
    /\ UNCHANGED <<mk, inputs, loaded, closing>>
    /\ UNCHANGED <<queueVars, unitFiles, jobFiles, relionFiles>>

ReconstructSubmit ==
    /\ Submit(Main, "rec_submit", Cur, "reconstruct",
              IF LastFile THEN "closing" ELSE "rec_prep")
    /\ mk' = IF LastFile THEN 1 ELSE mk + 1
    /\ UNCHANGED <<inputs, loaded, closing, importSubs, importJob>>
    /\ UNCHANGED <<unitFiles, jobFiles, relionFiles>>

\* print("All jobs submitted. Check for their completion!")
ClosingNotice ==
    /\ pc[Main] = "closing"
    /\ closing' = TRUE
    /\ Goto(Main, "done")
    /\ UNCHANGED <<mk, message_printed, job_count, inputs, loaded>>
    /\ UNCHANGED <<queueVars, unitFiles, jobFiles, relionFiles>>

\* ------------------------------------------------------------ the submitted jobs
\* The motion-correction job: RELION writes the success marker, then the
\* script stacks the corrected images into <prefix>_unaligned.mrc.
MotioncorrJobMarker(u) ==
    /\ jobs[u]["motioncorr"] = "queued"
    /\ jobs' = [jobs EXCEPT ![u]["motioncorr"] = "running"]
    /\ mcMarker' = [mcMarker EXCEPT ![D(u)] = TRUE]
    /\ UNCHANGED <<procVars, inputs, closing, subs, importSubs, importJob>>
    /\ UNCHANGED <<unitFiles, stack, ctfList, imod, importMarker, relionFiles>>

MotioncorrJobStack(u) ==
    /\ jobs[u]["motioncorr"] = "running"
    /\ jobs' = [jobs EXCEPT ![u]["motioncorr"] = "done"]
    /\ stack' = [stack EXCEPT ![D(u)] = TRUE]
    /\ UNCHANGED <<procVars, inputs, closing, subs, importSubs, importJob>>
    /\ UNCHANGED <<unitFiles, mcMarker, ctfList, imod, importMarker, relionFiles>>

\* The AreTomo job makes <prefix>_Imod and then its files, one at a time.
AretomoJobWrite(u) ==
    /\ jobs[u]["aretomo"] = "queued"
    /\ imod[D(u)] < ImodComplete
    /\ imod' = [imod EXCEPT ![D(u)] = @ + 1]
    /\ UNCHANGED <<procVars, inputs, closing, queueVars>>
    /\ UNCHANGED <<unitFiles, mcMarker, stack, ctfList, importMarker, relionFiles>>

AretomoJobEnd(u) ==
    /\ jobs[u]["aretomo"] = "queued"
    /\ imod[D(u)] = ImodComplete
    /\ jobs' = [jobs EXCEPT ![u]["aretomo"] = "done"]
    /\ UNCHANGED <<procVars, inputs, closing, subs, importSubs, importJob>>
    /\ UNCHANGED <<unitFiles, jobFiles, relionFiles>>

CtffindJobEnd(u) ==
    /\ jobs[u]["ctffind"] = "queued"
    /\ jobs' = [jobs EXCEPT ![u]["ctffind"] = "done"]
    /\ ctfList' = [ctfList EXCEPT ![D(u)] = TRUE]
    /\ UNCHANGED <<procVars, inputs, closing, subs, importSubs, importJob>>
    /\ UNCHANGED <<unitFiles, mcMarker, stack, imod, importMarker, relionFiles>>

ImportJobEnd ==
    /\ importJob = "queued"
    /\ importJob' = "done"
    /\ importMarker' = TRUE
    /\ UNCHANGED <<procVars, inputs, closing, subs, importSubs, jobs>>
    /\ UNCHANGED <<unitFiles, mcMarker, stack, ctfList, imod, relionFiles>>

ReconstructJobEnd(u) ==
    /\ jobs[u]["reconstruct"] = "queued"
    /\ jobs' = [jobs EXCEPT ![u]["reconstruct"] = "done"]
    /\ UNCHANGED <<procVars, inputs, closing, subs, importSubs, importJob>>
    /\ UNCHANGED <<unitFiles, jobFiles, relionFiles>>

\* ------------------------------------------------------------------ the system
Next ==
    \/ Spawn
    \/ \E u \in Units : process_mdoc_file(u)
    \/ \E u \in Units : file_sorter(u)
    \/ \E u \in Units : rawtlt_maker(u)
    \/ \E u \in Units : newstacker(u)
    \/ \E u \in Units : tomo_order_list_maker(u)
    \/ \E u \in Units : StagePrep(u)
    \/ \E u \in Units : StageGate(u)
    \/ \E u \in Units : StageQuery(u)
    \/ \E u \in Units : StageSubmit(u)
    \/ \E p \in Procs : SbatchFails(p)
    \/ Join
    \/ SetupGate
    \/ SetupLink
    \/ SetupImodGate
    \/ SetupListdir
    \/ SetupTlt
    \/ relion_import_star_maker
    \/ relion_import
    \/ ReconstructPrep
    \/ ReconstructGate
    \/ ReconstructQuery
    \/ ReconstructSubmit
    \/ ClosingNotice
    \/ \E u \in Units : MotioncorrJobMarker(u)
    \/ \E u \in Units : MotioncorrJobStack(u)
    \/ \E u \in Units : AretomoJobWrite(u)
    \/ \E u \in Units : AretomoJobEnd(u)
    \/ \E u \in Units : CtffindJobEnd(u)
    \/ ImportJobEnd
    \/ \E u \in Units : ReconstructJobEnd(u)

Spec == Init /\ [][Next]_vars

\* ---------------------------------------------- runs of the sorting block alone
\* Only file_sorting is enabled and the filter of the main block keeps one
\* file, whose text is any of SortingTexts; its directory is absent, or was
\* left by an earlier run over the same text and cleared of its links.
InitSorting ==
    /\ config \in {c \in Flags :
                     /\ c.file_sorting /\ ~c.motion_correction
                     /\ ~c.aretomo_alignment /\ ~c.ctf_estimation
                     /\ ~c.relion_tomo_import /\ ~c.relion_tomogram_reconstruction
                     /\ c.max_jobs = MaxCeiling}
    /\ filenames = [u \in Units |-> IF u = 1 THEN OwnName(u)
                                     ELSE <<Positions[u], "_override", ".mdoc">>]
    /\ \E text \in SortingTexts :
          mdoc = [u \in Units |-> IF u = 1 THEN text ELSE OwnText(u)]
    /\ InitRun
    /\ \E earlier \in {FALSE, Resolves(1)} :
          /\ dir = [u \in Units |-> earlier /\ u = D(1)]
          /\ rawtlt = [u \in Units |-> IF earlier /\ u = D(1)
                                         THEN File(RawtltLines(mdoc[1])) ELSE NoFile]
          /\ newstack = [u \in Units |-> IF earlier /\ u = D(1)
                                           THEN File(NewstackLines(mdoc[1])) ELSE NoFile]
          /\ orderList = [u \in Units |-> IF earlier /\ u = D(1)
                                            THEN File(OrderListLines(mdoc[1])) ELSE NoFile]
    /\ links = [u \in Units |-> {}]
    /\ mcMarker = [u \in Units |-> FALSE]
    /\ stack = [u \in Units |-> FALSE]
    /\ ctfList = [u \in Units |-> FALSE]
    /\ imod = [u \in Units |-> 0]
    /\ rlinks = [u \in Units |-> {}]
    /\ star = <<>>
    /\ importMarker = FALSE

\* What such a run can do.
NextSorting ==
    \/ Spawn
    \/ \E u \in Units : process_mdoc_file(u)
    \/ \E u \in Units : file_sorter(u)
    \/ \E u \in Units : rawtlt_maker(u)
    \/ \E u \in Units : newstacker(u)
    \/ \E u \in Units : tomo_order_list_maker(u)
    \/ Join
    \/ ClosingNotice

SpecSorting == InitSorting /\ [][NextSorting]_vars

\* ------------------------------------------- runs over directories of other files
\* Every flag combination over an empty processing directory, where one file
\* of mdoc_directory is another text or has another name.
InitInputs ==
    /\ config \in {c \in Flags : c.file_type = "mrc" /\ c.max_jobs = MaxCeiling}
    /\ \E k \in Units :
          /\ \E name \in OtherNames(k) :
                filenames = [u \in Units |-> IF u = k THEN name ELSE OwnName(u)]
          /\ \E text \in OtherTexts(k) :
                mdoc = [u \in Units |-> IF u = k THEN text ELSE OwnText(u)]
    /\ InitRun
    /\ InitFiles([u \in Units |-> FALSE], {})

SpecInputs == InitInputs /\ [][Next]_vars

\* ------------------------------------------------ runs on a scheduler that rejects
\* The runs of Spec at the largest ceiling over directories no earlier run
\* imported from, where in addition sbatch may exit with a non-zero status at
\* any submission.
InitRejects == Init /\ config.max_jobs = MaxCeiling /\ star = <<>>

NextRejects ==
    \/ Next
    \/ \E p \in Procs : SbatchRejected(p)
    \/ relion_importRejected

SpecRejects == InitRejects /\ [][NextRejects]_vars

\* --------------------------------------- runs during which the configuration is edited
\* What one edit makes of a configuration: one flag switched, or another ceiling.
Edited(c) ==
    {[c EXCEPT !.file_sorting = ~@], [c EXCEPT !.motion_correction = ~@],
     [c EXCEPT !.aretomo_alignment = ~@], [c EXCEPT !.ctf_estimation = ~@],
     [c EXCEPT !.relion_tomo_import = ~@],
     [c EXCEPT !.relion_tomogram_reconstruction = ~@]}
      \cup {[c EXCEPT !.max_jobs = m] : m \in (1..MaxCeiling) \ {c.max_jobs}}

\* Somebody saves config_TomoPrep.json while the run is in progress.
ConfigChanges ==
    /\ edits < MaxEdits
    /\ pc[Main] \notin {"done", "crashed"}
    /\ config' \in Edited(config)
    /\ edits' = edits + 1
    /\ UNCHANGED <<filenames, mdoc, position, procVars, closing>>
    /\ UNCHANGED <<queueVars, unitFiles, jobFiles, relionFiles>>

\* A run started with every stage enabled at the largest ceiling, over an
\* empty processing directory and well-formed mdoc files.
InitConfig ==
    /\ config = [file_sorting |-> TRUE, motion_correction |-> TRUE,
                 aretomo_alignment |-> TRUE, ctf_estimation |-> TRUE,
                 relion_tomo_import |-> TRUE, relion_tomogram_reconstruction |-> TRUE,
                 max_jobs |-> MaxCeiling, file_type |-> "mrc"]
    /\ filenames = [u \in Units |-> OwnName(u)]
    /\ mdoc = [u \in Units |-> OwnText(u)]
    /\ InitRun
    /\ InitFiles([u \in Units |-> FALSE], {})

NextConfig ==
    \/ Next
    \/ ConfigChanges

SpecConfig == InitConfig /\ [][NextConfig]_vars

\* ------------------------------------------------------- fair runs of a fresh directory
\* The steps of the sequencer process of a file.
SequencerStep(u) ==
    \/ process_mdoc_file(u)
    \/ StagePrep(u) \/ StageGate(u) \/ StageQuery(u) \/ StageSubmit(u)

\* The functions of the sorting block, and the return of one of them: the
\* process goes on to the next function, to the stage after the block, or
\* ends with the exception. A process at one of them can always run it.
SortingPcs == {"file_sorter", "rawtlt_maker", "newstacker", "tomo_order_list_maker"}

SortingReturns(u) ==
    /\ pc[u] \in SortingPcs
    /\ \E nxt \in SortingPcs \cup {AfterSorting(u), Abort(u)} :
         nxt # pc[u] /\ Goto(u, nxt)

UnitStep(u) ==
    \/ SequencerStep(u)
    \/ file_sorter(u) \/ rawtlt_maker(u) \/ newstacker(u) \/ tomo_order_list_maker(u)

\* The steps of the main process.
MainStep ==
    \/ Spawn \/ Join
    \/ SetupGate \/ SetupLink \/ SetupImodGate \/ SetupListdir \/ SetupTlt
    \/ relion_import_star_maker \/ relion_import
    \/ ReconstructPrep \/ ReconstructGate \/ ReconstructQuery \/ ReconstructSubmit
    \/ ClosingNotice

\* The steps of the jobs submitted for a file.
JobStep(u) ==
    \/ MotioncorrJobMarker(u) \/ MotioncorrJobStack(u)
    \/ AretomoJobWrite(u) \/ AretomoJobEnd(u)
    \/ CtffindJobEnd(u) \/ ReconstructJobEnd(u)

\* sbatch can always be started and the scheduler takes every job.
NextLive ==
    \/ MainStep
    \/ \E u \in Units : UnitStep(u)
    \/ \E u \in Units : JobStep(u)
    \/ ImportJobEnd

\* Every process that can take a step takes one, and every queued job runs
\* and writes its files.
Fairness ==
    /\ WF_vars(MainStep)
    /\ \A u \in Units : WF_vars(SequencerStep(u))
    /\ \A u \in Units : WF_pc(SortingReturns(u))
    /\ \A u \in Units : WF_vars(JobStep(u))
    /\ WF_vars(ImportJobEnd)

\* Every flag combination and ceiling over an empty processing directory and
\* well-formed mdoc files.
InitLive ==
    /\ config \in {c \in Flags : c.file_type = "mrc"}
    /\ filenames = [u \in Units |-> OwnName(u)]
    /\ mdoc = [u \in Units |-> OwnText(u)]
    /\ InitRun
    /\ InitFiles([u \in Units |-> FALSE], {})

SpecLive == InitLive /\ [][NextLive]_vars /\ Fairness

\* --------------------------------------- passes of the import star-file assembly
\* The loop of the main block over mdoc_files as far as the descriptor goes:
\* relion_import_star_maker for the current file, then the next file; after
\* the last file the pass is over and the next pass starts at the first file.
AssemblyPassCall ==
    /\ pc[Main] = "star"
    /\ Len(star) <= MaxPasses * Len(mdoc_files)
    /\ star' = StarWrite(star, D(Cur))
    /\ assembled' = assembled \cup {Cur}
    /\ mk' = IF LastFile THEN 1 ELSE mk + 1
    /\ UNCHANGED <<pc, message_printed, job_count, inputs, loaded, closing, rlinks>>
    /\ UNCHANGED <<queueVars, unitFiles, jobFiles>>

\* The main block at its import loop with relion_tomo_import = YES, the
\* sequences of the files ended; tomograms_descr.star is absent or is what a
\* pass over the same files left.
InitAssembly ==
    /\ config \in {c \in Flags : c.file_type = "mrc" /\ c.relion_tomo_import}
    /\ filenames = [u \in Units |-> OwnName(u)]
    /\ mdoc = [u \in Units |-> OwnText(u)]
    /\ position = [u \in Units |-> get_position_name(mdoc[u], config.file_type)]
    /\ edits = 0
    /\ loaded = [p \in Procs |-> config]
    /\ pc = [p \in Procs |-> IF p = Main THEN "star" ELSE "done"]
    /\ mk = 1
    /\ message_printed = [p \in Procs |-> FALSE]
    /\ job_count = [p \in Procs |-> 0]
    /\ subs = [u \in Units |-> <<>>]
    /\ importSubs = 0
    /\ jobs = [u \in Units |-> [s \in JobStages |-> "none"]]
    /\ importJob = "none"
    /\ scripts = [u \in Units |-> {}]
    /\ assembled = {}
    /\ closing = FALSE
    /\ \E imported \in {{}, Units} :
          InitFiles([u \in Units |-> TRUE], imported)

SpecAssembly == InitAssembly /\ [][AssemblyPassCall]_vars

\* ================================================================== properties
Count(seq, s) == Cardinality({i \in DOMAIN seq : seq[i] = s})
Submitted(u, s) == Count(subs[u], s) > 0
\* The position of the first submission of s for unit u (0: none).
FirstAt(u, s) == IF Submitted(u, s)
                   THEN CHOOSE i \in DOMAIN subs[u] :
                          subs[u][i] = s /\ \A j \in 1..(i - 1) : subs[u][j] # s
                   ELSE 0
\* The per-unit stage submissions of unit u, without the reconstruction.
UnitSubs(u) == SelectSeq(subs[u], LAMBDA s : s \in UnitStages)

\* The code positions of a sequencer, in program order.
PcOrder == <<"idle", "start", "file_sorter", "rawtlt_maker", "newstacker",
             "tomo_order_list_maker", "mc_prep", "mc_query", "mc_submit",
             "at_prep", "at_gate", "at_query", "at_submit",
             "ctf_prep", "ctf_gate", "ctf_query", "ctf_submit", "done">>
Pos(x) == CHOOSE i \in DOMAIN PcOrder : PcOrder[i] = x
LastPcOf(s) == CASE s = "motioncorr" -> "mc_submit"
                 [] s = "aretomo" -> "at_submit"
                 [] s = "ctffind" -> "ctf_submit"
FlagOf(s) == CASE s = "motioncorr" -> config.motion_correction
               [] s = "aretomo" -> config.aretomo_alignment
               [] s = "ctffind" -> config.ctf_estimation

\* ------------------------------------------------------------------------ C1
\* C1: in every admission loop sbatch is run only right after a load query
\* that returned a value below max_jobs (the process stands at a submit only
\* with such a job_count), and one invocation of a loop runs sbatch exactly
\* once: not before it leaves the loop, once when it has returned.
C1_SubmitOnlyBelowCeilingOnce ==
    /\ \A p \in Procs :
          pc[p] \in SubmitPcs => job_count[p] >= 1 /\ job_count[p] < config.max_jobs
    /\ \A u \in Units : \A s \in UnitStages :
          /\ Count(subs[u], s) <= 1
          /\ pc[u] # "failed" =>
               Count(subs[u], s) = IF FlagOf(s) /\ Pos(pc[u]) > Pos(LastPcOf(s))
                                     THEN 1 ELSE 0
    /\ \A u \in Units :
          /\ Count(subs[u], "reconstruct") <= 1
          /\ pc[Main] \in {"rec_prep", "rec_gate", "rec_query", "rec_submit"} =>
               Count(subs[u], "reconstruct") = IF u < mk THEN 1 ELSE 0
          /\ pc[Main] \in {"closing", "done"} =>
               Count(subs[u], "reconstruct") =
                   IF config.relion_tomogram_reconstruction THEN 1 ELSE 0

\* A unit that found the queue full, waited, and is now admitted.
C1_Witness ==
    \E u \in Units : pc[u] = "mc_submit" /\ message_printed[u]
                     /\ job_count[u] < config.max_jobs

\* ------------------------------------------------------------------------ C2
\* The single-path gates: the process, the position of the loop, and whether
\* the awaited path exists.
SingleGates ==
    {<<u, "at_gate", mcMarker[D(u)]>> : u \in Units}
      \cup {<<u, "ctf_gate", mcMarker[D(u)]>> : u \in Units}
      \cup {<<Main, "rec_gate", importMarker>>,
            <<Main, "rs_stack_gate", stack[D(Cur)]>>,
            <<Main, "rs_ctf_gate", ctfList[D(Cur)]>>,
            <<Main, "rs_order_gate", orderList[D(Cur)].exists>>}

\* C2: a single-path gate returns if and only if the path existed at the
\* returning check: a step that leaves the loop is taken with the path
\* present, and with the path present the loop does not take its waiting
\* branch (it returns at that check).
C2_GateReturnsIffExists ==
    [][\A g \in SingleGates :
          pc[g[1]] = g[2] =>
             /\ pc'[g[1]] # g[2] => g[3]
             /\ (g[3] /\ pc'[g[1]] = g[2]) =>
                   message_printed'[g[1]] = message_printed[g[1]]]_vars

\* AreTomo's gate has returned on the marker the unit's own job wrote.
C2_Witness ==
    \E u \in Units : pc[u] = "at_query" /\ mcMarker[u]
                     /\ jobs[u]["motioncorr"] \in {"running", "done"}

\* ------------------------------------------------------------------------ C3
\* C3 (as claimed): the gate on the <prefix>_Imod file set does not let
\* relion_setup go on to list and link the directory while any of the seven
\* paths is absent.
C3_ImodGateWaitsForAll ==
    pc[Main] = "rs_listdir" => imod[D(Cur)] = ImodComplete


\* ------------------------------------------------------------------------ C4
\* C4 (as claimed): for every combination of flags, no AreTomo and no CTF job
\* is submitted for a unit unless a motion-correction job for it was
\* submitted earlier in the same run.
C4_MotioncorrSubmittedFirst ==
    \A u \in Units : \A s \in {"aretomo", "ctffind"} :
        Submitted(u, s) =>
            Submitted(u, "motioncorr") /\ FirstAt(u, "motioncorr") < FirstAt(u, s)

\* C4 (amended): when motion_correction is enabled, no AreTomo and no CTF job
\* is submitted for a unit unless a motion-correction job for it was
\* submitted earlier in the same run.
C4_MotioncorrFirstWhenEnabled ==
    config.motion_correction => C4_MotioncorrSubmittedFirst

\* Motion correction enabled, and AreTomo and CTF both submitted after it.
C4_Witness ==
    \E u \in Units : config.motion_correction
                     /\ Submitted(u, "aretomo") /\ Submitted(u, "ctffind")

\* ------------------------------------------------------------------------ C5
\* C5: no cross-unit aggregation action happens, and main is not past the
\* join, before every sequencer process has ended, normally or by a caught
\* error.
C5_FinalBarrier ==
    LET \* Main is past the join loop.
        PastJoin == pc[Main] \notin {"spawn", "join"}
        \* Something of the cross-unit stages has been done in this run.
        AggregationActed ==
            \/ assembled # {}
            \/ importSubs > 0
            \/ \E u \in Units : Submitted(u, "reconstruct")
            \/ pc[Main] \in {"rs_stack_link", "rs_ctf_gate", "rs_ctf_link", "rs_imod_gate",
                             "rs_listdir", "rs_order_gate", "rs_order_link", "rs_tlt",
                             "star", "import", "rec_gate", "rec_query", "rec_submit"}
    IN  (PastJoin \/ AggregationActed) => \A u \in Units : pc[u] \in Terminated

\* Aggregation under way after one sequence failed and another finished.
C5_Witness ==
    /\ pc[Main] = "rs_ctf_gate"
    /\ \E u, v \in Units : pc[u] = "failed" /\ pc[v] = "done"

\* ------------------------------------------------------------------------ C6
\* The state makes the current call of unit u raise.
Raises(u) ==
    \/ pc[u] = "file_sorter"
          /\ (~Resolves(u) \/ FirstExisting(mdoc[u], links[D(u)]) # 0)
    \/ pc[u] \in {"mc_prep", "at_prep", "ctf_prep"} /\ ~(Resolves(u) /\ dir[D(u)])

\* The per-unit stages enabled by the flags that submit a job, in call order.
EnabledStages ==
    SelectSeq(<<"motioncorr", "aretomo", "ctffind">>, LAMBDA s : FlagOf(s))

Assembled(v) ==
    /\ {"stack", "ctf", "order"} \subseteq rlinks[v]
    /\ \E i \in DOMAIN star : star[i] = StarLine(v)

\* C7 (as claimed): no reconstruction job is submitted for any unit until
\* import assembly is complete for all units and the import success marker
\* exists.
C7_ReconstructAfterImportOfAll ==
    (\E u \in Units : Submitted(u, "reconstruct")) =>
        importMarker /\ \A v \in Units : Assembled(v)

\* C7 (amended): no reconstruction job is submitted for any unit until the
\* import success marker exists at the gate's returning check; and, when
\* relion_tomo_import is enabled, not until relion_setup and the descriptor
\* line are done for every unit in this run and the import job has been
\* submitted.
C7_ReconstructAfterImportWhenEnabled ==
    (\E u \in Units : Submitted(u, "reconstruct")) =>
        /\ importMarker
        /\ config.relion_tomo_import =>
              /\ assembled = Units
              /\ \A v \in Units : Assembled(v)
              /\ importSubs = 1

\* Import enabled, assembled in this run, and a reconstruction job submitted.
C7_Witness ==
    /\ config.relion_tomo_import
    /\ importJob = "done"
    /\ \E u \in Units : Submitted(u, "reconstruct")

\* ------------------------------------------------------------------------ C8
\* A step of unit u inside ctffind.
CtffindStep(u) ==
    /\ pc[u] \in {"ctf_prep", "ctf_gate", "ctf_query", "ctf_submit"}
    /\ StagePrep(u) \/ StageGate(u) \/ StageQuery(u) \/ StageSubmit(u)

\* C8 (as claimed): with the motion-correction marker present, CTF estimation
\* does not wait for AreTomo's admission loop or submission: while the unit is
\* in that loop its CTF stage can take a step (and so submit first).
C8_CtffindIndependentOfAretomo ==
    \A u \in Units :
        (/\ config.aretomo_alignment /\ config.ctf_estimation
         /\ mcMarker[u]
         /\ pc[u] \in {"at_query", "at_submit"}) => ENABLED CtffindStep(u)

\* C8 (amended): with both stages enabled, ctffind is entered only after
\* aretomo has returned, so the CTF job is submitted after the AreTomo job
\* was submitted; it does not wait for the AreTomo job to finish.
C8_CtffindAfterAretomoSubmitted ==
    \A u \in Units :
        (/\ config.aretomo_alignment
         /\ \/ pc[u] \in {"ctf_prep", "ctf_gate", "ctf_query", "ctf_submit"}
            \/ Submitted(u, "ctffind")) =>
            /\ Submitted(u, "aretomo")
            /\ Submitted(u, "ctffind") => FirstAt(u, "aretomo") < FirstAt(u, "ctffind")

\* The CTF job submitted while the AreTomo job of the unit is still queued.
C8_Witness ==
    \E u \in Units : Submitted(u, "ctffind") /\ jobs[u]["aretomo"] = "queued"

\* ------------------------------------------------------------------------ C9
Rank(s) == CASE s = "motioncorr" -> 1
             [] s = "aretomo" -> 2
             [] s = "ctffind" -> 3

\* C9: the submissions of one unit's sequencer occur in the order motion
\* correction, AreTomo, CTF: each stage at most once, never a later stage
\* before an earlier one, and none while an earlier enabled stage is still
\* to be submitted.
C9_SubmissionOrder ==
    \A u \in Units :
        /\ \A i, j \in DOMAIN UnitSubs(u) :
              i < j => Rank(UnitSubs(u)[i]) < Rank(UnitSubs(u)[j])
        /\ \A s, t \in UnitStages :
              (Submitted(u, t) /\ FlagOf(s) /\ Rank(s) < Rank(t)) => Submitted(u, s)

\* A unit with all three stages submitted.
C9_Witness ==
    \E u \in Units : UnitSubs(u) = <<"motioncorr", "aretomo", "ctffind">>

\* ----------------------------------------------------------------------- C10
\* The submit of process p.
SubmitStep(p) == IF p = Main THEN ReconstructSubmit ELSE StageSubmit(p)

\* C10: nothing between query and submit excludes other submitters: a process
\* that was admitted can always run sbatch, whatever the queue has become
\* since its query.
C10_NoMutualExclusion ==
    \A p \in Procs : pc[p] \in SubmitPcs => ENABLED SubmitStep(p)

\* Overshoot: two sequencers admitted from the same queue state have both
\* submitted, and the queue now lists more lines than the ceiling, which one
\* admitted submission alone cannot produce.
C10_Witness ==
    \E u, v \in Units :
        /\ u # v
        /\ subs[u] = <<"motioncorr">> /\ subs[v] = <<"motioncorr">>
        /\ jobs[u]["motioncorr"] = "queued" /\ jobs[v]["motioncorr"] = "queued"
        /\ QueueLines > config.max_jobs

\* ----------------------------------------------------------------------- C11
\* C11 (as claimed): with max_jobs = 1 and no job in the queue, a unit that
\* queries the load in its motion-correction loop is admitted (it goes on to
\* the sbatch and does not print the waiting notice); only a unit that
\* queries while a job is in the queue waits.
C11_FirstQuerySubmitsAtCeilingOne ==
    [][\A u \in Units :
          (/\ config.max_jobs = 1
           /\ QueueLines = 1
           /\ pc[u] = "mc_query"
           /\ StageQuery(u))
          => pc'[u] = "mc_submit" /\ message_printed'[u] = message_printed[u]]_vars

\* ----------------------------------------------------------------------- C12
\* The segments of a text read off its lines: the lines after the header in
\* fours, marker, tilt angle, sub-frame path, frame count.
Body(text) == IF text # <<>> /\ text[1][1] = "ImageFile" THEN Tail(text) ELSE text
SegmentCount(text) == Len(Body(text)) \div 4
SegmentLine(text, k, i) == Body(text)[4 * (k - 1) + i]
WellFormed(text) ==
    /\ Len(Body(text)) = 4 * SegmentCount(text)
    /\ \A k \in 1..SegmentCount(text) :
          /\ SegmentLine(text, k, 1)[1] = "ZValue"
          /\ SegmentLine(text, k, 2)[1] = "TiltAngle"
          /\ SegmentLine(text, k, 3)[1] = "SubFramePath"
          /\ SegmentLine(text, k, 4)[1] = "NumSubFrames"
          /\ SegmentLine(text, k, 4)[2] >= 0

\* C12: for the text of a file with N well-formed tilt segments readmdoc
\* returns (raises nothing) exactly N rows, the k-th row holding the tilt
\* angle (with its sign), the path and the frame count of the k-th segment of
\* the file, the frame count not negative; a file_sorter that ran through
\* linked the movies of exactly these rows.
C12_ParserReturnsAllRecords ==
    \A u \in Units :
        WellFormed(mdoc[u]) =>
           LET mdoc_df == readmdoc(mdoc[u])
               N == SegmentCount(mdoc[u])
           IN  /\ ~mdoc_df.raised
               /\ Len(mdoc_df.rows) = N
               /\ \A k \in 1..N :
                     /\ mdoc_df.rows[k].TiltAngle = SegmentLine(mdoc[u], k, 2)[2]
                     /\ mdoc_df.rows[k].SubFramePath = SegmentLine(mdoc[u], k, 3)[2]
                     /\ mdoc_df.rows[k].NumSubFrames = SegmentLine(mdoc[u], k, 4)[2]
                     /\ mdoc_df.rows[k].NumSubFrames >= 0
               /\ pc[u] = "rawtlt_maker" =>
                     links[D(u)] = {SegmentLine(mdoc[u], k, 3)[2] : k \in 1..N}

\* A series of three segments acquired at a positive, a negative and the zero
\* angle was parsed and its three movies were linked.
C12_Witness ==
    /\ WellFormed(mdoc[1]) /\ SegmentCount(mdoc[1]) = 3
    /\ pc[1] = "rawtlt_maker"
    /\ Cardinality(links[D(1)]) = 3
    /\ readmdoc(mdoc[1]).rows[1].TiltAngle > 0
    /\ readmdoc(mdoc[1]).rows[2].TiltAngle < 0

\* ----------------------------------------------------------------------- C13
\* A text with a tilt segment (the lines from a marker up to the next) that
\* has no line of one of the three required fields.
LacksField(text) ==
    \E i \in DOMAIN text :
        /\ text[i][1] = "ZValue"
        /\ \E key \in {"TiltAngle", "SubFramePath", "NumSubFrames"} :
              \A j \in (i + 1)..Len(text) :
                  text[j][1] = key => \E m \in (i + 1)..j : text[m][1] = "ZValue"

\* The state of a file whose text lacks a field: the parse raised and left no
\* rows, the file resolves to no position, nothing was submitted for it.
NothingFor(u) ==
    /\ readmdoc(mdoc[u]).raised /\ readmdoc(mdoc[u]).rows = <<>>
    /\ ~Resolves(u)
    /\ subs[u] = <<>>
    /\ \A s \in JobStages : jobs[u][s] = "none"
    /\ pc[u] \in {"idle", "start", "file_sorter", "mc_prep", "at_prep", "ctf_prep",
                  "failed", "done"}

\* C13: when a tilt segment of a file lacks its tilt angle, sub-frame path or
\* frame count, readmdoc raises and returns no table, not even the rows of
\* the segments before; no step of the file's sequence creates a directory,
\* a link, a file or a job script or submits a job, and every position
\* directory that exists is the directory of a file that parsed.
C13_MissingFieldFailsWholeFile ==
    /\ [](\A u \in Units : LacksField(mdoc[u]) => NothingFor(u))
    /\ [](\A v \in Units : dir[v] => \E w \in Units : Resolves(w) /\ D(w) = v)
    /\ [][\A u \in Units :
             LacksField(mdoc[u]) /\ pc'[u] # pc[u] =>
                 UNCHANGED <<unitFiles, queueVars, jobFiles>>]_vars

\* The sequence of a file with a segment that lacks a field has failed while
\* the other file went through its stages and had a job submitted.
C13_Witness ==
    \E u, v \in Units :
        /\ LacksField(mdoc[u]) /\ pc[u] = "failed"
        /\ ~LacksField(mdoc[v]) /\ pc[v] = "done" /\ subs[v] # <<>> /\ dir[D(v)]

\* ----------------------------------------------------------------------- C14
\* The identifier without the suffix it ends with, unchanged when it does not
\* end with it.
StripTrailing(name, suffix) ==
    IF name # <<>> /\ name[Len(name)] = suffix
      THEN SubSeq(name, 1, Len(name) - 1)
      ELSE name

\* C14 (as claimed): the position_prefix of a file that resolves is the
\* ImageFile value of its data frame with the trailing ".<file_type>" removed
\* when it ends with it and unchanged otherwise, occurrences of
\* ".<file_type>" elsewhere in the value being kept, and position_directory
\* is processing_directory/position_prefix.
C14_TrailingSuffixOnly ==
    \A u \in Units :
        Resolves(u) =>
           LET canonical == StripTrailing(readmdoc(mdoc[u]).ImageFile,
                                          Dot(config.file_type))
           IN  /\ PositionName(u).position_prefix = canonical
               /\ PositionName(u).position_directory
                     = <<"processing_directory">> \o canonical

\* ----------------------------------------------------------------------- C15
\* The ImageFile value as it stands in the header of a text.
ImageFileOf(text) == text[Search(text, "ImageFile")][3]

\* Two files that resolve, the identifier of the second being that of the
\* first followed by ".<file_type>".
DifferBySuffix(u, v) ==
    /\ Resolves(u) /\ Resolves(v)
    /\ ImageFileOf(mdoc[v]) = ImageFileOf(mdoc[u]) \o <<Dot(config.file_type)>>

C16_DirectoriesExclusive ==
    \A u, v \in Units :
        (/\ u # v
         /\ IsMdocFile(filenames[u]) /\ IsMdocFile(filenames[v])
         /\ Resolves(u) /\ Resolves(v)
         /\ pc[u] \notin {"idle"} \cup Terminated
         /\ pc[v] \notin {"idle"} \cup Terminated)
        => PositionName(u).position_directory # PositionName(v).position_directory

\* ----------------------------------------------------------------------- C17
\* The tilt angles of the rows readmdoc returns for the file, in file order.
ParsedAngles(u) ==
    LET rows == readmdoc(mdoc[u]).rows IN [i \in DOMAIN rows |-> rows[i].TiltAngle]
Ascending(seq) == \A i, j \in DOMAIN seq : i < j => seq[i] <= seq[j]
Permutation(s, t) ==
    /\ Len(s) = Len(t)
    /\ \A x \in {s[i] : i \in DOMAIN s} \cup {t[i] : i \in DOMAIN t} :
          Count(s, x) = Count(t, x)

\* C17: rawtlt_maker, whenever it is run, goes through and leaves in
\* <prefix>.rawtlt the tilt angles of the file in ascending order, a
\* permutation of the parsed angles; run over a directory in which an earlier
\* run over the same records left the file, it leaves the file exactly as it
\* was (written over, nothing appended, no other order).
C17_RawtltSortedAndIdempotent ==
    [][\A u \in Units :
          pc[u] = "rawtlt_maker" /\ pc'[u] # pc[u] =>
             /\ pc'[u] = "newstacker"
             /\ rawtlt'[D(u)].exists
             /\ Ascending(rawtlt'[D(u)].lines)
             /\ Permutation(rawtlt'[D(u)].lines, ParsedAngles(u))
             /\ rawtlt[D(u)].exists => rawtlt'[D(u)] = rawtlt[D(u)]]_vars

\* The second run over a series acquired at +20, -20, 0 has written the
\* file again: the directory holds the order list of the earlier run.
C17_Witness ==
    /\ pc[1] = "newstacker"
    /\ orderList[D(1)].exists
    /\ ParsedAngles(1) = <<20, 0 - 20, 0>>
    /\ rawtlt[D(1)] = File(<<0 - 20, 0, 20>>)

\* ----------------------------------------------------------------------- C18
\* The tilt angle of the record whose movie the k-th pair of a manifest names.
AngleOfPair(u, lines, k) ==
    LET rows == readmdoc(mdoc[u]).rows
    IN  rows[CHOOSE i \in DOMAIN rows : rows[i].SubFramePath = lines[2 * k][2]].TiltAngle

\* A manifest for the records of file u: the number N of records, then N
\* pairs of a path line and a "0" line, one pair per record, in ascending
\* tilt angle.
IsManifest(u, lines) ==
    LET rows == readmdoc(mdoc[u]).rows
        N == Len(rows)
    IN  /\ Len(lines) = 1 + 2 * N
        /\ lines[1] = <<"len", N>>
        /\ \A k \in 1..N : /\ lines[2 * k][1] = "MotionCorr/job002/"
                           /\ lines[2 * k + 1] = <<"0", 0>>
        /\ {lines[2 * k][2] : k \in 1..N} = {rows[i].SubFramePath : i \in 1..N}
        /\ Cardinality({lines[2 * k][2] : k \in 1..N}) = N
        /\ \A k \in 1..N : \A m \in 1..N :
              k < m => AngleOfPair(u, lines, k) <= AngleOfPair(u, lines, m)

\* C18: newstacker, whenever it is run, goes through and leaves in
\* <prefix>_newstack.txt the number N of tilt records of the file and then
\* exactly N pairs (path line, "0" line), one per record, in ascending tilt
\* angle; for records in file order +20, -20, 0 the pairs name the movies of
\* the second, third and first segment.
C18_NewstackManifest ==
    [][\A u \in Units :
          pc[u] = "newstacker" /\ pc'[u] # pc[u] =>
             /\ pc'[u] = "tomo_order_list_maker"
             /\ newstack'[D(u)].exists
             /\ IsManifest(u, newstack'[D(u)].lines)
             /\ ParsedAngles(u) = <<20, 0 - 20, 0>> =>
                   [k \in 1..3 |-> newstack'[D(u)].lines[2 * k][2]]
                     = <<readmdoc(mdoc[u]).rows[2].SubFramePath,
                         readmdoc(mdoc[u]).rows[3].SubFramePath,
                         readmdoc(mdoc[u]).rows[1].SubFramePath>>]_vars

\* newstacker has written the manifest of a series acquired at +20, -20, 0
\* into a directory made in this run.
C18_Witness ==
    /\ pc[1] = "tomo_order_list_maker"
    /\ ~orderList[D(1)].exists
    /\ ParsedAngles(1) = <<20, 0 - 20, 0>>
    /\ Len(newstack[D(1)].lines) = 7
    /\ newstack[D(1)].lines[1] = <<"len", 3>>

\* ----------------------------------------------------------------------- C19
\* Where a process is while it runs a stage function.
StagePcs(s) == CASE s = "motioncorr" -> {"mc_prep", "mc_query", "mc_submit"}
                 [] s = "aretomo" -> {"at_prep", "at_gate", "at_query", "at_submit"}
                 [] s = "ctffind" -> {"ctf_prep", "ctf_gate", "ctf_query", "ctf_submit"}
                 [] s = "reconstruct" -> {"rec_prep", "rec_gate", "rec_query", "rec_submit"}

\* C19: a stage whose flag is not YES is never executed: no process is ever
\* inside its function, its job script is not written and no job of it is
\* submitted for any unit, and a run without file_sorting changes nothing of
\* what the sorting block makes; and the flag of a stage decides alone: a
\* sequence that ran to its end has run exactly the stages whose own flag is
\* YES, whatever the other flags are.
C19_FlagsControlOwnStage ==
    /\ [](\A u \in Units : \A s \in UnitStages :
             /\ ~FlagOf(s) => /\ pc[u] \notin StagePcs(s)
                              /\ s \notin scripts[D(u)]
                              /\ ~Submitted(u, s)
             /\ pc[u] = "done" => /\ Submitted(u, s) <=> FlagOf(s)
                                  /\ s \in scripts[D(u)] <=> FlagOf(s))
    /\ [](\A u \in Units : ~config.file_sorting => pc[u] \notin SortingPcs)
    /\ [](~config.relion_tomo_import =>
             /\ pc[Main] \in {"spawn", "join", "closing", "done", "crashed"}
                               \cup StagePcs("reconstruct")
             /\ importSubs = 0 /\ assembled = {})
    /\ [](~config.relion_tomogram_reconstruction =>
             /\ pc[Main] \notin StagePcs("reconstruct")
             /\ \A u \in Units : /\ ~Submitted(u, "reconstruct")
                                 /\ "reconstruct" \notin scripts[D(u)])
    /\ [](pc[Main] = "done" =>
             /\ importSubs = 1 <=> config.relion_tomo_import
             /\ \A u \in Units :
                   Submitted(u, "reconstruct") <=> config.relion_tomogram_reconstruction)
    /\ [][(~config.file_sorting =>
              UNCHANGED <<dir, links, rawtlt, newstack, orderList>>)
          /\ (~config.relion_tomo_import => UNCHANGED <<rlinks, star>>)]_vars

\* A sequence ran to its end with aretomo disabled between two enabled
\* stages: motion correction and CTF estimation were submitted, aretomo not.
C19_Witness ==
    \E u \in Units :
        /\ pc[u] = "done"
        /\ ~config.aretomo_alignment
        /\ config.motion_correction /\ config.ctf_estimation
        /\ subs[u] = <<"motioncorr", "ctffind">>
        /\ scripts[D(u)] = {"motioncorr", "ctffind"}

\* ----------------------------------------------------------------------- C20
\* A file whose name ends in ".mdoc" and holds no "_override".
Kept(u) ==
    /\ filenames[u] # <<>>
    /\ filenames[u][Len(filenames[u])] = ".mdoc"
    /\ "_override" \notin {filenames[u][i] : i \in DOMAIN filenames[u]}

\* The main block is in a step it takes per file of mdoc_files.
PerFileStep == pc[Main] \notin {"import", "closing", "done", "crashed"}

\* C20: a process_mdoc_file process is started for a file only by the main
\* block, only when the file name ends in ".mdoc" and holds no "_override",
\* and never a second time; once the start loop is over every such file has
\* had its process started; for any other file no process is started, the
\* main block takes no step (relion_setup, star line, reconstruction), and
\* nothing is submitted.
C20_OneSequencerPerMdocFile ==
    /\ [](\A u \in Units :
             /\ pc[Main] # "spawn" => (pc[u] # "idle" <=> Kept(u))
             /\ ~Kept(u) => /\ pc[u] = "idle"
                            /\ subs[u] = <<>>
                            /\ u \notin assembled
                            /\ PerFileStep => Cur # u)
    /\ [][\A u \in Units :
             /\ pc[u] # "idle" => pc'[u] # "idle"
             /\ pc[u] = "idle" /\ pc'[u] # "idle" =>
                   /\ Kept(u)
                   /\ pc[Main] = "spawn" /\ pc'[u] = "start"]_vars

\* A run came to its end over a directory with a file named *_override*.mdoc
\* or *.mdoc.txt: the process of the other file ran, none for this one.
C20_Witness ==
    \E u, v \in Units :
        /\ ~Kept(u) /\ pc[u] = "idle"
        /\ Kept(v) /\ pc[v] = "done" /\ subs[v] # <<>>
        /\ pc[Main] = "done"

\* ----------------------------------------------------------------------- C21
\* C21: when the run started without tomograms_descr.star, then after the
\* import block went through K files the descriptor is the header block,
\* once and first, followed by exactly K data lines, the lines of the first K
\* files of mdoc_files in that order (and there is no file while K = 0).
C21_DescriptorHeaderOnceThenLines ==
    \* no data line of an earlier run: every data line is the line of a file
    \* the import block of this run went through
    (\A i \in DOMAIN star : star[i] = StarHeader \/ star[i][2] \in assembled) =>
        LET K == Cardinality(assembled)
        IN  /\ assembled = {mdoc_files[i] : i \in 1..K}
            /\ star = IF K = 0 THEN <<>>
                      ELSE <<StarHeader>> \o [i \in 1..K |-> StarLine(D(mdoc_files[i]))]

\* The import block went through all files of a run that started without a
\* descriptor and is about to submit the import job.
C21_Witness ==
    /\ pc[Main] = "import"
    /\ Cardinality(assembled) = NumUnits
    /\ Len(star) = NumUnits + 1
    /\ star[1] = StarHeader

\* ----------------------------------------------------------------------- C22
\* The sequence of unit u ended at the sbatch of stage s: the script of the
\* stage is written, its job was not submitted.
SbatchFailed(u, s) ==
    pc[u] = "failed" /\ s \in scripts[D(u)] /\ ~Submitted(u, s)

\* C22: when a unit's process leaves an sbatch call without a job submitted
\* (the call could not be launched), the process ends as failed in that step,
\* with no job added and no other process moved; it then stays failed, the
\* sbatch is not tried again and none of the unit's later stages is ever
\* submitted.
C22_SubmitFailureIsFatal ==
    /\ [][\A u \in Units :
             /\ (pc[u] \in SubmitPcs /\ pc'[u] # pc[u] /\ subs'[u] = subs[u]) =>
                   /\ pc'[u] = "failed"
                   /\ subs' = subs /\ jobs' = jobs /\ importSubs' = importSubs
                   /\ \A p \in Procs \ {u} : pc'[p] = pc[p]
             /\ pc[u] = "failed" =>
                   /\ pc'[u] = "failed"
                   /\ SelectSeq(subs'[u], LAMBDA s : s \in UnitStages) = UnitSubs(u)]_vars
    /\ [](\A u \in Units : \A s \in UnitStages :
             SbatchFailed(u, s) =>
                 \A t \in UnitStages : Rank(t) >= Rank(s) => ~Submitted(u, t))

\* The sbatch of a unit's motion correction failed, with aretomo and ctffind
\* still to come, and the other unit went through all three stages.
C22_Witness ==
    \E u, v \in Units :
        /\ SbatchFailed(u, "motioncorr") /\ subs[u] = <<>>
        /\ config.aretomo_alignment /\ config.ctf_estimation
        /\ pc[v] = "done" /\ subs[v] = <<"motioncorr", "aretomo", "ctffind">>

\* ----------------------------------------------------------------------- C23
\* Process p runs one pass of its admission loop up to the test of the load.
QueryStep(p) == IF p = Main THEN ReconstructQuery ELSE StageQuery(p)

\* The pass prints the "Waiting for the queue to go down" notice: the branch
\* "if not message_printed", the only place that prints it.
PrintsQueueNotice(p) == ~Admits(QueueLines, config.max_jobs) /\ ~message_printed[p]

\* C23: a pass of an admission loop prints the waiting notice exactly when it
\* is the first query of the invocation (no load observed yet) and observes a
\* load >= max_jobs; so an invocation prints it at most once however often it
\* queries again, and has printed it if and only if its first observation was
\* >= max_jobs: while it waits it has printed it, at the sbatch it has
\* printed it if and only if it waited.
C23_QueueNoticeOnceIffFirstFull ==
    /\ [][\A p \in Procs :
             QueryStep(p) =>
                 /\ PrintsQueueNotice(p) <=>
                       (job_count[p] = 0 /\ QueueLines >= config.max_jobs)
                 /\ PrintsQueueNotice(p) <=> (~message_printed[p] /\ message_printed'[p])
                 /\ message_printed[p] => message_printed'[p]]_vars
    /\ [](\A p \in Procs :
             pc[p] \in {"mc_query", "at_query", "ctf_query", "rec_query"} =>
                 /\ message_printed[p] <=> job_count[p] # 0
                 /\ job_count[p] # 0 => job_count[p] >= config.max_jobs)

\* A unit that printed the notice at a full queue and queried again finds the
\* load below max_jobs at its next query.
C23_Witness ==
    \E u \in Units :
        /\ pc[u] = "ctf_query" /\ message_printed[u]
        /\ job_count[u] > config.max_jobs
        /\ QueueLines < config.max_jobs

\* ----------------------------------------------------------------------- C24
\* Process p runs one check of the wait it is in.
GateCheck(p) ==
    IF p = Main THEN SetupGate \/ SetupImodGate \/ ReconstructGate ELSE StageGate(p)

\* C24 (as claimed): a check of a wait prints the "waiting for" notice
\* exactly when it is the first check of the wait that finds the awaited
\* artifact absent (no notice printed yet in this wait, something awaited
\* missing): at most once per wait, and never when all is there at the call.
\* The waits are the single-path gates and the wait of relion_setup for the
\* files of <prefix>_Imod, each with whether all it waits for exists.
C24_GateNoticeAtFirstAbsentCheck ==
    [][\A g \in SingleGates \cup {<<Main, "rs_imod_gate", imod[D(Cur)] = ImodComplete>>} :
          (pc[g[1]] = g[2] /\ GateCheck(g[1])) =>
              ((~message_printed[g[1]] /\ message_printed'[g[1]])
                  <=> (~message_printed[g[1]] /\ ~g[3]))]_vars

\* ----------------------------------------------------------------------- C25
\* The process that takes the step has, as its latest load observation, a
\* value below max_jobs.
AdmittedBefore(p) == job_count[p] >= 1 /\ job_count[p] < config.max_jobs

\* C25 (as claimed): every step that runs sbatch, for a stage of a unit or
\* for relion_import.sh, is taken by a process right after a load query of
\* its own that observed a load below max_jobs.
C25_EverySubmissionAdmitted ==
    [][/\ \A u \in Units :
             subs'[u] # subs[u] =>
                 \E p \in Procs : /\ pc[p] \in SubmitPcs /\ pc'[p] # pc[p]
                                  /\ AdmittedBefore(p)
       /\ importSubs' # importSubs => AdmittedBefore(Main)]_vars

\* ----------------------------------------------------------------------- C26
\* The main process stands in relion_setup at a call that raises for the
\* current file: a link that exists, a listing of an absent directory or of
\* files already linked, a .tlt or tilt.com that is not there.
SetupRaises ==
    \/ pc[Main] = "rs_stack_link" /\ "stack" \in rlinks[D(Cur)]
    \/ pc[Main] = "rs_ctf_link" /\ "ctf" \in rlinks[D(Cur)]
    \/ pc[Main] = "rs_order_link" /\ "order" \in rlinks[D(Cur)]
    \/ pc[Main] = "rs_listdir"
          /\ (imod[D(Cur)] = 0 \/ ImodListing(imod[D(Cur)]) \cap rlinks[D(Cur)] # {})
    \/ pc[Main] = "rs_tlt"
          /\ ~("tlt" \in rlinks[D(Cur)] /\ "tilt.com" \in ImodListing(imod[D(Cur)]))

\* The main process ended on an exception of the import block.
CrashedInImport == pc[Main] = "crashed" /\ config.relion_tomo_import /\ importSubs = 0

\* C26: a call of relion_setup that raises for the k-th file ends the main
\* process (nothing catches it); from then on the main process does nothing:
\* no link, no descriptor line and no file assembled for any later file, no
\* import job, no reconstruction job for any file, no closing notice.
C26_AggregationErrorsNotIsolated ==
    /\ [][/\ (SetupRaises /\ pc'[Main] # pc[Main]) => pc'[Main] = "crashed"
          /\ pc[Main] = "crashed" =>
                /\ pc'[Main] = "crashed"
                /\ UNCHANGED <<mk, rlinks, star, assembled, importSubs, closing>>
                /\ \A u \in Units :
                      Count(subs'[u], "reconstruct") = Count(subs[u], "reconstruct")]_vars
    /\ [](CrashedInImport =>
             /\ ~closing
             /\ assembled = {mdoc_files[i] : i \in 1..(mk - 1)}
             /\ \A u \in Units : /\ ~Submitted(u, "reconstruct")
                                 /\ "reconstruct" \notin scripts[D(u)])

\* relion_setup raised for the first file while the second, whose sequence
\* ran through and whose jobs wrote their outputs, was still to be assembled
\* and reconstruction was enabled.
C26_Witness ==
    /\ CrashedInImport /\ mk = 1
    /\ config.relion_tomogram_reconstruction
    /\ pc[2] = "done" /\ stack[D(2)] /\ ctfList[D(2)] /\ orderList[D(2)].exists
    /\ rlinks[D(2)] = {} /\ 2 \notin assembled

\* ----------------------------------------------------------------------- C27
\* Unit u waits in aretomo or ctffind for a motion-correction success marker
\* that is not there.
Blocked(u) == pc[u] \in {"at_gate", "ctf_gate"} /\ ~mcMarker[D(u)]

\* C27: a unit that waits for its motion-correction success marker leaves the
\* wait in no step unless the marker has appeared (there is no timeout and
\* nothing cancels the wait); while it waits its process has not ended, the
\* main block is still starting or joining the processes, and no step of the
\* import or reconstruction is taken for any unit.
C27_BlockedGateBlocksAggregation ==
    /\ [][\A u \in Units :
             Blocked(u) =>
                 /\ pc'[u] = pc[u] \/ mcMarker'[D(u)]
                 /\ UNCHANGED <<rlinks, star, assembled, importSubs, closing>>]_vars
    /\ [](\A u \in Units :
             Blocked(u) =>
                 /\ pc[u] \notin Terminated
                 /\ pc[Main] \in {"spawn", "join"}
                 /\ assembled = {} /\ importSubs = 0 /\ ~closing
                 /\ \A v \in Units : ~Submitted(v, "reconstruct"))

\* The motion-correction job of a unit is still in the queue and has written
\* no marker: the unit waits in aretomo, the other unit has finished its
\* sequence, and the main block, with import enabled, stands in the join.
C27_Witness ==
    \E u, v \in Units :
        /\ Blocked(u) /\ message_printed[u] /\ jobs[u]["motioncorr"] = "queued"
        /\ pc[v] = "done" /\ subs[v] = <<"motioncorr", "aretomo", "ctffind">>
        /\ pc[Main] = "join" /\ config.relion_tomo_import

\* ----------------------------------------------------------------------- C28
\* C28 (as claimed): once "All jobs submitted. Check for their completion!"
\* is printed, the job of every enabled stage has been submitted for every
\* file of mdoc_files (and the import job when the import is enabled).
C28_ClosingMeansAllSubmitted ==
    closing =>
        /\ \A i \in DOMAIN mdoc_files :
              /\ \A s \in UnitStages : FlagOf(s) => Submitted(mdoc_files[i], s)
              /\ config.relion_tomogram_reconstruction =>
                    Submitted(mdoc_files[i], "reconstruct")
        /\ config.relion_tomo_import => importSubs >= 1

\* ----------------------------------------------------------------------- C29
\* C29 (as claimed): with motion correction enabled, the AreTomo job and the
\* CTF job of a unit are submitted only when the motion-correction job
\* submitted for the unit in this run has written its success marker,
\* whatever the processing directory held when the run started.
C29_AfterThisRunsMotioncorr ==
    \A u \in Units :
        (config.motion_correction /\ (Submitted(u, "aretomo") \/ Submitted(u, "ctffind")))
            => /\ Submitted(u, "motioncorr")
               /\ jobs[u]["motioncorr"] \in {"running", "done"}

\* ----------------------------------------------------------------------- C30
\* A text without an "ImageFile = ..." line.
NoImageFile(text) == \A i \in DOMAIN text : text[i][1] # "ImageFile"

\* C30: for a text without ImageFile line whose segments are complete the
\* parser raises nothing and returns its rows with the ImageFile marked
\* absent; the file then resolves to no position: every stage called for it
\* raises at get_position_name, so its sequence ends as failed at its first
\* stage with nothing created, written or submitted for it, and every
\* position directory that exists carries the identifier of a file that has
\* one.
C30_AbsentImageFileFailsHard ==
    /\ [](\A u \in Units :
             (NoImageFile(mdoc[u]) /\ ~LacksField(mdoc[u])) =>
                 /\ ~readmdoc(mdoc[u]).raised
                 /\ ~readmdoc(mdoc[u]).has_image
                 /\ Len(readmdoc(mdoc[u]).rows) = SegmentCount(mdoc[u])
                 /\ PositionName(u).raised
                 /\ subs[u] = <<>>
                 /\ \A s \in JobStages : jobs[u][s] = "none"
                 /\ pc[u] \in {"idle", "start", "file_sorter", "mc_prep", "at_prep",
                               "ctf_prep", "failed", "done"})
    /\ [](\A v \in Units :
             dir[v] => \E w \in Units : /\ D(w) = v
                                        /\ ~PositionName(w).raised
                                        /\ ~NoImageFile(mdoc[w]))
    /\ [][\A u \in Units :
             NoImageFile(mdoc[u]) /\ pc'[u] # pc[u] =>
                 /\ UNCHANGED <<unitFiles, queueVars, jobFiles>>
                 /\ pc[u] \in {"file_sorter", "mc_prep", "at_prep", "ctf_prep"}
                       => pc'[u] = "failed"]_vars

\* The sequence of a file without ImageFile line has failed at a stage that
\* needed the position name; the other file was sorted and had a job
\* submitted.
C30_Witness ==
    \E u, v \in Units :
        /\ NoImageFile(mdoc[u]) /\ pc[u] = "failed" /\ Kept(u)
        /\ ~NoImageFile(mdoc[v]) /\ pc[v] = "done" /\ subs[v] # <<>>
        /\ dir[D(v)] /\ links[D(v)] # {}

\* ----------------------------------------------------------------------- C31
\* File sorting is enabled, the sequence of unit u has not run file_sorter
\* yet, and the movie of a SubFramePath line of its text is linked in
\* position_directory.
LinkThere(u) ==
    /\ config.file_sorting /\ Resolves(u)
    /\ pc[u] \in {"idle", "start", "file_sorter"}
    /\ \E i \in DOMAIN mdoc[u] :
          mdoc[u][i][1] = "SubFramePath" /\ mdoc[u][i][2] \in links[D(u)]

\* C31: when a link of the unit is in its directory before file_sorter runs,
\* file_sorter raises at the first row whose link exists (the links of the
\* rows before it are made) and the unit's process ends as failed; neither
\* before nor after that does the unit's sequence write a tilt list, a
\* manifest, an order list or a job script or submit a job, and the step that
\* fails changes no other process and nothing of the queue.
C31_ExistingLinkFailsSorting ==
    /\ [][\A u \in Units :
            /\ (LinkThere(u) /\ pc'[u] # pc[u]) =>
                  /\ pc[u] = "file_sorter" =>
                        /\ pc'[u] = "failed"
                        /\ FirstExisting(mdoc[u], links[D(u)]) # 0
                        /\ links'[D(u)] = links[D(u)] \cup
                              {readmdoc(mdoc[u]).rows[i].SubFramePath :
                                 i \in 1..(FirstExisting(mdoc[u], links[D(u)]) - 1)}
                        /\ \A p \in Procs \ {u} : pc'[p] = pc[p]
                        /\ UNCHANGED queueVars
                  /\ pc[u] # "file_sorter" => LinkThere(u)'
            /\ (LinkThere(u) \/ pc[u] = "failed") =>
                  /\ rawtlt'[D(u)] = rawtlt[D(u)]
                  /\ newstack'[D(u)] = newstack[D(u)]
                  /\ orderList'[D(u)] = orderList[D(u)]
                  /\ scripts'[D(u)] \cap UnitStages = scripts[D(u)] \cap UnitStages
                  /\ UnitSubs(u)' = UnitSubs(u)]_vars
    /\ [](\A u \in Units : LinkThere(u) => UnitSubs(u) = <<>>)

\* A second run over a unit with file sorting enabled: its sequence has
\* failed at file_sorter with nothing submitted, while the sequence of the
\* other unit, new in this run, was sorted and went through its three jobs.
C31_Witness ==
    \E u, v \in Units :
        /\ config.file_sorting /\ pc[u] = "failed" /\ subs[u] = <<>>
        /\ scripts[D(u)] = {} /\ mcMarker[D(u)] /\ jobs[u]["motioncorr"] = "none"
        /\ pc[v] = "done" /\ subs[v] = <<"motioncorr", "aretomo", "ctffind">>
        /\ rawtlt[D(v)].exists /\ newstack[D(v)].exists

\* ----------------------------------------------------------------------- C32
\* The unit a process submits for.
UnitOf(p) == IF p = Main THEN Cur ELSE p

\* C32: the exit status of sbatch is not looked at. A step in which sbatch
\* ran for a stage and the scheduler took no job leaves the process where a
\* successful submission leaves it (the next stage of the sequence, locals
\* reset), a sequence that ends normally has run sbatch once for every
\* enabled stage whether the jobs were taken or not, and a wait is left
\* exactly on the existence of its path, with or without a job behind it.
C32_SubmitIsFireAndForget ==
    /\ [][\A p \in Procs :
            (pc[p] \in SubmitPcs /\ subs'[UnitOf(p)] # subs[UnitOf(p)]) =>
                /\ pc'[p] = AfterSbatch(p)
                /\ ~message_printed'[p] /\ job_count'[p] = 0
                /\ subs'[UnitOf(p)] = Append(subs[UnitOf(p)], StageAt(p))
                /\ jobs' = jobs \/ jobs' = [jobs EXCEPT ![UnitOf(p)][StageAt(p)] = "queued"]]_vars
    /\ [][importSubs' # importSubs =>
             /\ pc[Main] = "import" /\ pc'[Main] = AfterImport
             /\ importJob' \in {importJob, "queued"}]_vars
    /\ [][\A g \in SingleGates :
             pc[g[1]] = g[2] =>
                /\ pc'[g[1]] # g[2] => g[3]
                /\ g[3] => \/ pc'[g[1]] # g[2]
                           \/ message_printed'[g[1]] = message_printed[g[1]]]_vars
    /\ [](\A v \in Units : pc[v] = "done" => UnitSubs(v) = EnabledStages)

\* The scheduler rejected the motion-correction job of a unit; the unit went
\* on, passed the wait of aretomo on the success marker an earlier run had
\* left, and ended its sequence with sbatch run for all three stages.
C32_Witness ==
    \E u \in Units :
        /\ pc[u] = "done" /\ subs[u] = <<"motioncorr", "aretomo", "ctffind">>
        /\ jobs[u]["motioncorr"] = "none" /\ mcMarker[D(u)]
        /\ jobs[u]["aretomo"] = "queued"

\* ----------------------------------------------------------------------- C33
\* C33 (as claimed): whatever is saved to config_TomoPrep.json during the
\* run, every process holds the flags and the ceiling the file had when the
\* run started, so all processes of a run hold the same values.
C33_ConfigurationReadOnce ==
    \A p, q \in Procs : loaded[p] = loaded[q]

\* ----------------------------------------------------------------------- C34
\* C34: tomo_order_list_maker, whenever it is run, goes through and leaves in
\* <prefix>_order_list.csv one row per tilt segment of the file, the i-th row
\* holding the index i (from 1) and the tilt angle of the i-th segment of
\* the file: the order of acquisition, not the ascending order of the tilt
\* list; for segments at +20, -20, 0 the rows are (1, 20), (2, -20), (3, 0).
C34_OrderListInFileOrder ==
    [][\A u \in Units :
          pc[u] = "tomo_order_list_maker" /\ pc'[u] # pc[u] =>
             LET N == SegmentCount(mdoc[u])
                 rows == orderList'[D(u)].lines
             IN  /\ pc'[u] # "failed"
                 /\ WellFormed(mdoc[u])
                 /\ orderList'[D(u)].exists
                 /\ Len(rows) = N
                 /\ \A i \in 1..N : rows[i] = <<i, SegmentLine(mdoc[u], i, 2)[2]>>
                 /\ ParsedAngles(u) = <<20, 0 - 20, 0>> =>
                       rows = <<<<1, 20>>, <<2, 0 - 20>>, <<3, 0>>>>]_vars

\* The sorting block has run over a series acquired at +20, -20, 0: the tilt
\* list is ascending and the order list follows the file.
C34_Witness ==
    /\ pc[1] = "done"
    /\ rawtlt[D(1)] = File(<<0 - 20, 0, 20>>)
    /\ orderList[D(1)] = File(<<<<1, 20>>, <<2, 0 - 20>>, <<3, 0>>>>)

\* ----------------------------------------------------------------------- C35
\* C35 (as claimed): for every file whose text parses into one or more rows
\* and has an ImageFile line, get_position_name raises nothing and returns
\* the identifier without the suffix and the directory of that name under
\* the processing directory, whatever the number of rows; a file of a single
\* tilt segment does not end its sequence at its first stage.
C35_ResolvesWithOneRecord ==
    \A u \in Units :
        LET mdoc_df == readmdoc(mdoc[u])
        IN  (~mdoc_df.raised /\ Len(mdoc_df.rows) >= 1 /\ mdoc_df.has_image) =>
               /\ ~PositionName(u).raised
               /\ PositionName(u).position_prefix =
                     Replace(mdoc_df.ImageFile, Dot(config.file_type))
               /\ PositionName(u).position_directory =
                     <<"processing_directory">> \o PositionName(u).position_prefix
               /\ (pc[u] = "failed" => dir[D(u)])

\* ----------------------------------------------------------------------- C36
\* The sequence of another file than the current one ran through its stages
\* and had its jobs submitted.
SiblingSucceeded ==
    \E v \in Units \ {Cur} : pc[v] = "done" /\ UnitSubs(v) # <<>>

\* C36 (as claimed): a file whose sequence failed neither aborts nor blocks
\* the cross-unit stages for a sibling whose sequence succeeded: the main
\* process does not end on an exception raised in a call for the failed
\* file, and it does not wait in relion_setup for a path of the failed file.
C36_FailedUnitStopsNothing ==
    /\ [][(pc[Main] # "crashed" /\ pc'[Main] = "crashed" /\ SiblingSucceeded)
             => pc[Cur] # "failed"]_vars
    /\ []((/\ \/ pc[Main] = "rs_stack_gate" /\ Resolves(Cur) /\ ~stack[D(Cur)]
              \/ pc[Main] = "rs_ctf_gate" /\ ~ctfList[D(Cur)]
              \/ pc[Main] = "rs_order_gate" /\ ~orderList[D(Cur)].exists
           /\ SiblingSucceeded)
             => pc[Cur] # "failed")

\* ----------------------------------------------------------------------- C37
\* C37 (as claimed): from an empty processing directory, when every process
\* keeps taking its steps, every job taken by the scheduler runs and writes
\* its files, and the queue listing is again and again shorter than the
\* ceiling each process holds, the run prints the closing notice, whatever
\* the flags.
C37_RunReachesClosingNotice ==
    (\A p \in Procs : []<>(QueueLines < loaded[p].max_jobs)) => <>closing

\* ----------------------------------------------------------------------- C38
\* C38 (as claimed): whenever the import star-file assembly has gone through
\* the files of mdoc_files a whole number of times (one pass or more),
\* tomograms_descr.star holds the header block once and exactly one data
\* line for each file.
C38_AssemblyIsIdempotent ==
    (pc[Main] = "star" /\ mk = 1 /\ star # <<>>) =>
        /\ Count(star, StarHeader) = 1
        /\ \A i \in DOMAIN mdoc_files : Count(star, StarLine(D(mdoc_files[i]))) = 1

====
